---- MODULE Spec2Model ----
(***************************************************************************)
(* PropertyOS: the command pipeline (address detection, command            *)
(* classification, command execution) and the public-data aggregation      *)
(* coordinator.                                                            *)
(*                                                                         *)
(* Text is a sequence of one-character strings, so that trim, toLowerCase, *)
(* includes, startsWith and the regular expressions of addressDetection.ts *)
(* are computed character by character, as the code computes them.         *)
(* Confidences are in hundredths (0.9 is 90): every threshold comparison   *)
(* of the code has the same outcome on the IEEE doubles and on hundredths. *)
(***************************************************************************)
EXTENDS Integers, Sequences, FiniteSets, TLC

(***************************************************************************)
(* Characters and the String methods the code uses                         *)
(***************************************************************************)
LowerLetters ==
    {"a","b","c","d","e","f","g","h","i","j","k","l","m",
     "n","o","p","q","r","s","t","u","v","w","x","y","z"}

UpperLetters ==
    {"A","B","C","D","E","F","G","H","I","J","K","L","M",
     "N","O","P","Q","R","S","T","U","V","W","X","Y","Z"}

Digits == {"0","1","2","3","4","5","6","7","8","9"}

Whitespace == {" ", "\t"}

Letters == LowerLetters \cup UpperLetters

WordChars == Letters \cup Digits \cup {"_"}

LowerOf ==
    "A" :> "a" @@ "B" :> "b" @@ "C" :> "c" @@ "D" :> "d" @@ "E" :> "e" @@
    "F" :> "f" @@ "G" :> "g" @@ "H" :> "h" @@ "I" :> "i" @@ "J" :> "j" @@
    "K" :> "k" @@ "L" :> "l" @@ "M" :> "m" @@ "N" :> "n" @@ "O" :> "o" @@
    "P" :> "p" @@ "Q" :> "q" @@ "R" :> "r" @@ "S" :> "s" @@ "T" :> "t" @@
    "U" :> "u" @@ "V" :> "v" @@ "W" :> "w" @@ "X" :> "x" @@ "Y" :> "y" @@
    "Z" :> "z"

LowerChar(c) == IF c \in UpperLetters THEN LowerOf[c] ELSE c

\* String.prototype.toLowerCase
toLowerCase(s) == [i \in 1..Len(s) |-> LowerChar(s[i])]

\* a text left as it is
NoTrim(s) == s

\* String.prototype.trim
RECURSIVE TrimLeft(_)
TrimLeft(s) ==
    IF s # <<>> /\ Head(s) \in Whitespace THEN TrimLeft(Tail(s)) ELSE s

RECURSIVE TrimRight(_)
TrimRight(s) ==
    IF s # <<>> /\ s[Len(s)] \in Whitespace
    THEN TrimRight(SubSeq(s, 1, Len(s) - 1))
    ELSE s

trim(s) == TrimRight(TrimLeft(s))

\* String.prototype.startsWith
startsWith(s, p) == Len(p) <= Len(s) /\ SubSeq(s, 1, Len(p)) = p

\* String.prototype.includes
includes(s, sub) ==
    \E i \in 1..(Len(s) - Len(sub) + 1) : SubSeq(s, i, i + Len(sub) - 1) = sub

(***************************************************************************)
(* Regular expressions: a backtracking matcher with the priority order of  *)
(* the JavaScript engine (greedy quantifiers, alternatives left to right). *)
(* A match state is [e: the next position to read, c: the captures], a     *)
(* capture being <<>> (undefined) or <<text>>.  M returns the match states *)
(* in the order in which backtracking would try them; the first is the     *)
(* match the engine reports.                                               *)
(***************************************************************************)
\* one character of the set S
Cls(S) == [t |-> "cls", set |-> S]

\* a literal under the i flag: kept in lower case, compared with the lower
\* case of the text
Lit(str) == [t |-> "lit", s |-> toLowerCase(str)]

\* an alternation of literals (?:a|b|...), tried left to right; first holds
\* the first characters, to skip a position where none can start
Lits(strs) ==
    [t |-> "lits", ls |-> [k \in 1..Len(strs) |-> toLowerCase(strs[k])],
     first |-> {LowerChar(strs[k][1]) : k \in 1..Len(strs)}]

\* greedy [S]{lo,hi}, and [S]{lo,} ([S]+ is [S]{1,}, [S]* is [S]{0,})
Run(S, lo, hi) == [t |-> "run", set |-> S, lo |-> lo, hi |-> hi, open |-> FALSE]

AtLeast(S, lo) == [t |-> "run", set |-> S, lo |-> lo, hi |-> lo, open |-> TRUE]

Plus(S) == AtLeast(S, 1)

\* greedy r?
Opt(r) == [t |-> "opt", r |-> r]

Cat(rs) == [t |-> "cat", rs |-> rs]

Grp(n, r) == [t |-> "grp", n |-> n, r |-> r]

WordBoundary == [t |-> "wb"]

LineStart == [t |-> "bol"]

NoCaptures == <<<<>>, <<>>, <<>>, <<>>, <<>>>>

IsWordAt(s, i) == i >= 1 /\ i <= Len(s) /\ s[i] \in WordChars

\* the literal lit (in lower case) stands at position e of s
LitAt(s, e, lit) ==
    /\ e + Len(lit) - 1 <= Len(s)
    /\ \A k \in 1..Len(lit) : LowerChar(s[e + k - 1]) = lit[k]

\* how many characters of S follow from position e, counting to n
RECURSIVE RunLength(_, _, _, _)
RunLength(s, e, S, n) ==
    IF e + n <= Len(s) /\ s[e + n] \in S THEN RunLength(s, e, S, n + 1) ELSE n

\* the match states that end at hi, hi - 1, ..., lo, with captures c
RECURSIVE EndingFrom(_, _, _)
EndingFrom(hi, lo, c) ==
    IF hi < lo THEN <<>> ELSE <<[e |-> hi, c |-> c]>> \o EndingFrom(hi - 1, lo, c)

\* the match states after each of the literals hits, read at position e
RECURSIVE After(_, _, _, _)
After(hits, j, e, c) ==
    IF j > Len(hits) THEN <<>>
    ELSE <<[e |-> e + Len(hits[j]), c |-> c]>> \o After(hits, j + 1, e, c)

\* the states of a group's inside, with capture n set to what each one read
RECURSIVE Captured(_, _, _, _, _)
Captured(inner, j, n, s, from) ==
    IF j > Len(inner) THEN <<>>
    ELSE <<[e |-> inner[j].e,
            c |-> [inner[j].c EXCEPT ![n] = <<SubSeq(s, from, inner[j].e - 1)>>]]>>
         \o Captured(inner, j + 1, n, s, from)

RECURSIVE M(_, _, _)
RECURSIVE MCat(_, _, _, _)
RECURSIVE MEach(_, _, _, _, _)

\* the continuation rs[k..] of a concatenation, from each state of sts in order
MEach(rs, k, s, sts, j) ==
    IF j > Len(sts) THEN <<>>
    ELSE MCat(rs, k, s, sts[j]) \o MEach(rs, k, s, sts, j + 1)

MCat(rs, k, s, st) ==
    IF k > Len(rs) THEN <<st>>
    ELSE MEach(rs, k + 1, s, M(rs[k], s, st), 1)

M(re, s, st) ==
    CASE re.t = "cat" -> MCat(re.rs, 1, s, st)
      [] re.t = "run" ->
            \* the longest run first, then one character less at a time
            LET most == RunLength(s, st.e, re.set, 0)
                n == IF ~re.open /\ most > re.hi THEN re.hi ELSE most
            IN  EndingFrom(st.e + n, st.e + re.lo, st.c)
      [] re.t = "lits" ->
            IF st.e <= Len(s) /\ LowerChar(s[st.e]) \in re.first
            THEN After(SelectSeq(re.ls, LAMBDA lit : LitAt(s, st.e, lit)), 1, st.e, st.c)
            ELSE <<>>
      [] re.t = "wb" ->
            IF IsWordAt(s, st.e - 1) # IsWordAt(s, st.e) THEN <<st>> ELSE <<>>
      [] re.t = "lit" ->
            IF LitAt(s, st.e, re.s)
            THEN <<[e |-> st.e + Len(re.s), c |-> st.c]>> ELSE <<>>
      [] re.t = "grp" ->
            Captured(M(re.r, s, st), 1, re.n, s, st.e)
      [] re.t = "opt" -> M(re.r, s, st) \o <<st>>
      [] re.t = "cls" ->
            IF st.e <= Len(s) /\ s[st.e] \in re.set
            THEN <<[e |-> st.e + 1, c |-> st.c]>> ELSE <<>>
      [] re.t = "bol" -> IF st.e = 1 THEN <<st>> ELSE <<>>

\* String.prototype.match / RegExp.prototype.test of a regular expression
\* without the g flag: the first match at the leftmost start that has one
\* (only the start of the text, for a pattern that begins with ^);
\* <<>> when there is none, else <<[e, c]>>
RECURSIVE MatchFrom(_, _, _)
MatchFrom(re, s, i) ==
    IF i > Len(s) + 1 THEN <<>>
    ELSE LET ms == M(re, s, [e |-> i, c |-> NoCaptures])
         IN  IF ms # <<>> THEN <<ms[1]>>
             ELSE IF re.t = "cat" /\ re.rs[1].t = "bol" THEN <<>>
             ELSE MatchFrom(re, s, i + 1)

match(s, re) == MatchFrom(re, s, 1)

test(re, s) == match(s, re) # <<>>

(***************************************************************************)
(* utils/addressDetection.ts                                               *)
(***************************************************************************)
\* (?:Street|St|Avenue|...|Pkwy), the alternation of every pattern
SuffixAlternation ==
    Lits(<<<<"S","t","r","e","e","t">>, <<"S","t">>, <<"A","v","e","n","u","e">>, <<"A","v","e">>, <<"R","o","a","d">>, <<"R","d">>, <<"D","r","i","v","e">>, <<"D","r">>,
           <<"L","a","n","e">>, <<"L","n">>, <<"B","o","u","l","e","v","a","r","d">>, <<"B","l","v","d">>, <<"C","i","r","c","l","e">>, <<"C","i","r">>, <<"C","o","u","r","t">>,
           <<"C","t">>, <<"P","l","a","c","e">>, <<"P","l">>, <<"W","a","y">>, <<"P","a","r","k","w","a","y">>, <<"P","k","w","y">>>>)

\* ^(\d+)\s+([A-Za-z\s]+(?:Street|...)), the head of patterns 0 to 3
NumberAndStreet ==
    <<LineStart,
      Grp(1, Plus(Digits)),
      Plus(Whitespace),
      Grp(2, Cat(<<Plus(Letters \cup Whitespace), SuffixAlternation>>))>>

\* ,?\s+([A-Za-z\s]+),?\s+([A-Z]{2}), the city and state of patterns 1 and 2
\* (the i flag makes [A-Z] match lower case too)
CityAndState ==
    <<Opt(Lit(<<",">>)),
      Plus(Whitespace),
      Grp(3, Plus(Letters \cup Whitespace)),
      Opt(Lit(<<",">>)),
      Plus(Whitespace),
      Grp(4, Run(Letters, 2, 2))>>

ADDRESS_PATTERNS ==
    << \* Standard US addresses: "123 Main St", "456 Oak Avenue"
       Cat(NumberAndStreet \o <<WordBoundary>>),
       \* With city and state: "123 Main St, Boston MA"
       Cat(NumberAndStreet \o CityAndState \o <<WordBoundary>>),
       \* With ZIP: "123 Main St, Boston MA 02101"
       Cat(NumberAndStreet \o CityAndState \o
           <<Plus(Whitespace),
             Grp(5, Cat(<<Run(Digits, 5, 5),
                          Opt(Cat(<<Lit(<<"-">>), Run(Digits, 4, 4)>>))>>)),
             WordBoundary>>),
       \* Apartment/Unit numbers: "123 Main St Apt 4B"
       Cat(NumberAndStreet \o
           <<Plus(Whitespace),
             Lits(<<<<"A","p","t">>, <<"A","p","a","r","t","m","e","n","t">>, <<"U","n","i","t">>, <<"#">>>>),
             AtLeast(Whitespace, 0),
             Grp(3, Plus(Letters \cup Digits))>>),
       \* Simple number + street name: "123 Main"
       Cat(<<LineStart,
             Grp(1, Plus(Digits)),
             Plus(Whitespace),
             Grp(2, AtLeast(Letters \cup Whitespace, 2)),
             WordBoundary>>) >>

STREET_SUFFIXES ==
    <<<<"S","t","r","e","e","t">>, <<"S","t">>, <<"A","v","e","n","u","e">>, <<"A","v","e">>, <<"R","o","a","d">>, <<"R","d">>, <<"D","r","i","v","e">>, <<"D","r">>,
      <<"L","a","n","e">>, <<"L","n">>, <<"B","o","u","l","e","v","a","r","d">>, <<"B","l","v","d">>, <<"C","i","r","c","l","e">>, <<"C","i","r">>, <<"C","o","u","r","t">>, <<"C","t">>,
      <<"P","l","a","c","e">>, <<"P","l">>, <<"W","a","y">>, <<"P","a","r","k","w","a","y">>, <<"P","k","w","y">>, <<"T","r","a","i","l">>, <<"T","r">>>>

\* new RegExp(`\\b${suffix}\\b`, 'i').test(text): the suffix stands somewhere
\* in the text with a word boundary on either side
SuffixWordIn(suffix, text) ==
    \E i \in 1..Len(text) :
        /\ LitAt(text, i, toLowerCase(suffix))
        /\ IsWordAt(text, i - 1) # IsWordAt(text, i)
        /\ IsWordAt(text, i + Len(suffix) - 1) # IsWordAt(text, i + Len(suffix))

\* an undefined capture reads as '' in match[2] || ''
CaptureOrEmpty(cap) == IF cap = <<>> THEN <<>> ELSE cap[1]

Min(a, b) == IF a < b THEN a ELSE b

Max(a, b) == IF a > b THEN a ELSE b

\* calculateConfidence(match, patternIndex), patternIndex from 0, in hundredths
calculateConfidence(m, patternIndex) ==
    LET base == CASE patternIndex = 0 -> 90
                  [] patternIndex = 1 -> 95
                  [] patternIndex = 2 -> 98
                  [] patternIndex = 3 -> 85
                  [] patternIndex = 4 -> 70
                  [] OTHER -> 80
        streetText == CaptureOrEmpty(m.c[2])
        hasCommonSuffix ==
            \E k \in 1..8 : SuffixWordIn(STREET_SUFFIXES[k], streetText)
        boosted == IF hasCommonSuffix THEN base + 5 ELSE base
        reduced == IF Len(streetText) < 4 THEN boosted - 10 ELSE boosted
    IN  Min(99, Max(0, reduced))

\* formatAddress(match)
formatAddress(m) ==
    LET number == m.c[1]
        street == m.c[2]
        city == m.c[3]
        state == m.c[4]
        zip == m.c[5]
        base == CaptureOrEmpty(number) \o <<" ">> \o CaptureOrEmpty(street)
        withCity == IF city # <<>> /\ state # <<>>
                    THEN base \o <<","," ">> \o city[1] \o <<","," ">> \o state[1]
                    ELSE base
    IN  IF zip # <<>> THEN withCity \o <<" ">> \o zip[1] ELSE withCity

\* extractComponents(match): every field is the capture of its position,
\* <<>> when that group did not take part in the match
extractComponents(m) ==
    [number |-> m.c[1], street |-> m.c[2], city |-> m.c[3],
     state |-> m.c[4], zip |-> m.c[5]]

NoComponents ==
    [number |-> <<>>, street |-> <<>>, city |-> <<>>, state |-> <<>>, zip |-> <<>>]

\* a rejection that reports -1 for "no confidence"
NotAnAddressMinusOne(input) ==
    [isAddress |-> FALSE, formatted |-> input,
     components |-> NoComponents, confidence |-> -1]

NotAnAddress(input) ==
    [isAddress |-> FALSE, formatted |-> input,
     components |-> NoComponents, confidence |-> 0]

\* a loop that returns whatever match it finds
PatternAlwaysAccepted(confidence) == TRUE

\* if (confidence > 0.6)
PatternAccepted(confidence) == confidence > 60

\* the loop over ADDRESS_PATTERNS from index i (from 0): the first pattern
\* that matches with confidence > 0.6 returns; found is <<>> when the loop
\* runs out, and patterns counts the patterns that were tried
RECURSIVE TryPatterns(_, _)
TryPatterns(trimmed, i) ==
    IF i >= Len(ADDRESS_PATTERNS) THEN [found |-> <<>>, patterns |-> i]
    ELSE LET found == match(trimmed, ADDRESS_PATTERNS[i + 1])
             confidence == calculateConfidence(found[1], i)
         IN  IF found # <<>> /\ PatternAccepted(confidence)
             THEN [found |-> <<[isAddress |-> TRUE,
                                formatted |-> formatAddress(found[1]),
                                components |-> extractComponents(found[1]),
                                confidence |-> confidence]>>,
                   patterns |-> i + 1]
             ELSE TryPatterns(trimmed, i + 1)

\* a number test without the anchor: /\d+/.test(trimmed)
hasNumberAnywhere(trimmed) == test(Plus(Digits), trimmed)

\* the fallback of detectAddress: a leading number and a street-suffix word
\* /^\d+/.test(trimmed)
hasNumber(trimmed) == test(Cat(<<LineStart, Plus(Digits)>>), trimmed)

hasStreetSuffix(trimmed) ==
    \E k \in 1..Len(STREET_SUFFIXES) : SuffixWordIn(STREET_SUFFIXES[k], trimmed)

\* a detectAddress without its length check
NeverTooShort(trimmed) == FALSE

\* if (!trimmed || trimmed.length < 3)
TooShort(trimmed) == trimmed = <<>> \/ Len(trimmed) < 3

\* the body of detectAddress: the AddressMatch it returns, with how many
\* patterns it tried and whether it came to the fallback on the way
detectAddressTraced(input) ==
    LET trimmed == trim(input)
    IN  IF TooShort(trimmed)
        THEN [result |-> NotAnAddress(input), patterns |-> 0, fallback |-> FALSE]
        ELSE LET byPattern == TryPatterns(trimmed, 0)
             IN  IF byPattern.found # <<>>
                 THEN [result |-> byPattern.found[1],
                       patterns |-> byPattern.patterns, fallback |-> FALSE]
                 ELSE [result |->
                          IF hasNumber(trimmed) /\ hasStreetSuffix(trimmed)
                          THEN [isAddress |-> TRUE, formatted |-> trimmed,
                                components |->
                                    [NoComponents EXCEPT !.street = <<trimmed>>],
                                confidence |-> 70]
                          ELSE NotAnAddress(input),
                       patterns |-> byPattern.patterns, fallback |-> TRUE]

detectAddress(input) == detectAddressTraced(input).result

(***************************************************************************)
(* CommandProcessor (components/tabs/OverviewTab.tsx, lines 152-518)       *)
(*                                                                         *)
(* An optional value is <<>> (undefined) or <<value>>.  The tab of a call  *)
(* without context is NoTab.                                               *)
(***************************************************************************)
Tabs == {"overview", "operations", "intelligence"}

NoTab == "undefined"

\* a ProcessedCommand object
Command(type, input, confidence, data, addressMatch) ==
    [type |-> type, input |-> input, confidence |-> confidence,
     data |-> data, addressMatch |-> addressMatch]

UnknownCommand(input) == Command("unknown", input, 0, <<>>, <<>>)

\* a rule that any active tab lets fire
OnAnyTab(activeTab, tab) == TRUE

\* if (activeTab === tab): the rules of a tab are tried on that tab only
OnTab(activeTab, tab) == activeTab = tab

\* detectContextualCommand(input, activeTab)
detectContextualCommand(input, activeTab) ==
    LET lower == toLowerCase(input)
        has(kw) == includes(lower, kw)
    IN  IF OnTab(activeTab, "overview") /\ (has(<<"h","e","a","l","t","h">>) \/ has(<<"s","c","o","r","e">>))
        THEN Command("analysis", input, 80, <<[analysisType |-> "health"]>>, <<>>)
        ELSE IF OnTab(activeTab, "overview") /\ (has(<<"a","l","e","r","t">>) \/ has(<<"i","s","s","u","e">>))
        THEN Command("analysis", input, 80, <<[analysisType |-> "alerts"]>>, <<>>)
        ELSE IF OnTab(activeTab, "operations") /\ (has(<<"m","a","i","n","t","e","n","a","n","c","e">>) \/ has(<<"r","e","p","a","i","r">>))
        THEN Command("maintenance", input, 90, <<[action |-> "create_work_order"]>>, <<>>)
        ELSE IF OnTab(activeTab, "operations") /\ (has(<<"t","e","n","a","n","t">>) \/ has(<<"l","e","a","s","e">>))
        THEN Command("tenant", input, 90, <<[action |-> "tenant_management"]>>, <<>>)
        ELSE IF OnTab(activeTab, "operations") /\ (has(<<"s","c","h","e","d","u","l","e">>) \/ has(<<"a","p","p","o","i","n","t","m","e","n","t">>))
        THEN Command("scheduling", input, 80, <<[action |-> "schedule"]>>, <<>>)
        ELSE IF OnTab(activeTab, "intelligence")
                /\ (has(<<"m","a","r","k","e","t">>) \/ has(<<"c","o","m","p">>) \/ has(<<"v","a","l","u","e">>))
        THEN Command("analysis", input, 90, <<[analysisType |-> "market"]>>, <<>>)
        ELSE IF OnTab(activeTab, "intelligence") /\ (has(<<"r","e","n","t">>) \/ has(<<"p","r","i","c","i","n","g">>))
        THEN Command("analysis", input, 90,
                     <<[analysisType |-> "rent_optimization"]>>, <<>>)
        ELSE IF OnTab(activeTab, "intelligence") /\ (has(<<"e","x","p","e","n","s","e">>) \/ has(<<"c","o","s","t">>))
        THEN Command("analysis", input, 80, <<[analysisType |-> "expenses"]>>, <<>>)
        ELSE UnknownCommand(input)

\* extractEntityType(input)
extractEntityType(input) ==
    IF includes(input, <<"p","r","o","p","e","r","t","y">>) THEN "property"
    ELSE IF includes(input, <<"t","e","n","a","n","t">>) THEN "tenant"
    ELSE IF includes(input, <<"w","o","r","k"," ","o","r","d","e","r">>) \/ includes(input, <<"m","a","i","n","t","e","n","a","n","c","e">>)
    THEN "work_order"
    ELSE IF includes(input, <<"e","x","p","e","n","s","e">>) THEN "expense"
    ELSE IF includes(input, <<"d","o","c","u","m","e","n","t">>) THEN "document"
    ELSE "unknown"

\* detectGeneralCommand(input)
detectGeneralCommand(input) ==
    LET lower == toLowerCase(input)
        has(kw) == includes(lower, kw)
        navigation == has(<<"g","o"," ","t","o">>) \/ has(<<"n","a","v","i","g","a","t","e">>) \/ has(<<"s","h","o","w">>)
    IN  IF navigation /\ has(<<"o","v","e","r","v","i","e","w">>)
        THEN Command("navigation", input, 90, <<[target |-> "overview"]>>, <<>>)
        ELSE IF navigation /\ has(<<"o","p","e","r","a","t","i","o","n","s">>)
        THEN Command("navigation", input, 90, <<[target |-> "operations"]>>, <<>>)
        ELSE IF navigation /\ has(<<"i","n","t","e","l","l","i","g","e","n","c","e">>)
        THEN Command("navigation", input, 90, <<[target |-> "intelligence"]>>, <<>>)
        ELSE IF navigation /\ has(<<"h","o","m","e">>)
        THEN Command("navigation", input, 90, <<[target |-> "home"]>>, <<>>)
        ELSE IF has(<<"h","e","l","p">>) \/ has(<<"h","o","w">>) \/ has(<<"w","h","a","t">>)
        THEN Command("help", input, 80, <<[query |-> input]>>, <<>>)
        ELSE IF startsWith(lower, <<"c","r","e","a","t","e">>) \/ startsWith(lower, <<"a","d","d">>)
                \/ startsWith(lower, <<"n","e","w">>)
        THEN Command("create", input, 70, <<[entity |-> extractEntityType(lower)]>>, <<>>)
        ELSE UnknownCommand(input)

\* an address threshold that only the patterns with a city clear
AddressAcceptedAbove90(addressMatch) ==
    addressMatch.isAddress /\ addressMatch.confidence > 90

\* if (addressMatch.isAddress && addressMatch.confidence > 0.6)
AddressAccepted(addressMatch) ==
    addressMatch.isAddress /\ addressMatch.confidence > 60

\* if (contextualCommand.confidence > 0.7)
ContextualAccepted(contextualCommand) == contextualCommand.confidence > 70

\* a general stage whose result is returned whatever its confidence
GeneralAlwaysAccepted(generalCommand) == TRUE

\* the threshold of the contextual stage used for the general stage
GeneralAcceptedAbove70(generalCommand) == generalCommand.confidence > 70

\* a general threshold that no general rule clears
GeneralAcceptedAbove90(generalCommand) == generalCommand.confidence > 90

\* if (generalCommand.confidence > 0.6)
GeneralAccepted(generalCommand) == generalCommand.confidence > 60

\* processInput with the general stage consulted before the contextual one
processInputGeneralFirst(input, activeTab) ==
    LET trimmed == trim(input)
        addressMatch == detectAddress(trimmed)
        contextualCommand == detectContextualCommand(trimmed, activeTab)
        generalCommand == detectGeneralCommand(trimmed)
    IN  IF trimmed = <<>>
        THEN [command |-> UnknownCommand(input), stages |-> <<>>]
        ELSE IF AddressAccepted(addressMatch)
        THEN [command |->
                 Command("address", trimmed, addressMatch.confidence,
                         <<[formatted |-> addressMatch.formatted,
                            components |-> addressMatch.components]>>,
                         <<addressMatch>>),
              stages |-> <<"address">>]
        ELSE IF GeneralAccepted(generalCommand)
        THEN [command |-> generalCommand,
              stages |-> <<"address", "general">>]
        ELSE IF ContextualAccepted(contextualCommand)
        THEN [command |-> contextualCommand,
              stages |-> <<"address", "general", "contextual">>]
        ELSE [command |-> Command("search", trimmed, 50, <<[query |-> trimmed]>>, <<>>),
              stages |-> <<"address", "general", "contextual", "search">>]

\* processInput(input, context): the command it resolves with, and the
\* stages it called on the way, in call order
processInput(input, activeTab) ==
    LET trimmed == trim(input)
        addressMatch == detectAddress(trimmed)
        contextualCommand == detectContextualCommand(trimmed, activeTab)
        generalCommand == detectGeneralCommand(trimmed)
    IN  IF trimmed = <<>>
        THEN [command |-> UnknownCommand(input), stages |-> <<>>]
        ELSE IF AddressAccepted(addressMatch)
        THEN [command |->
                 Command("address", trimmed, addressMatch.confidence,
                         <<[formatted |-> addressMatch.formatted,
                            components |-> addressMatch.components]>>,
                         <<addressMatch>>),
              stages |-> <<"address">>]
        ELSE IF ContextualAccepted(contextualCommand)
        THEN [command |-> contextualCommand,
              stages |-> <<"address", "contextual">>]
        ELSE IF GeneralAccepted(generalCommand)
        THEN [command |-> generalCommand,
              stages |-> <<"address", "contextual", "general">>]
        ELSE [command |-> Command("search", trimmed, 50, <<[query |-> trimmed]>>, <<>>),
              stages |-> <<"address", "contextual", "general", "search">>]

(***************************************************************************)
(* CommandProcessor.executeCommand and its handlers.  A message is the     *)
(* sequence of the pieces of its template string: a literal or an          *)
(* enumerated name (s), or a text value (cs).  A handler either returns a  *)
(* CommandResult or throws; command.data.x throws a TypeError when         *)
(* command.data is undefined and reads undefined when data has no x.       *)
(***************************************************************************)
Piece(s) == [s |-> s, cs |-> <<>>]

TextPiece(cs) == [s |-> "", cs |-> cs]

\* ${v} of an optional enumerated name / of an optional text
NamePiece(v) == IF v = <<>> THEN Piece("undefined") ELSE Piece(v[1])

TextValuePiece(v) == IF v = <<>> THEN Piece("undefined") ELSE TextPiece(v[1])

Returned(result) == [thrown |-> FALSE, result |-> <<result>>, error |-> <<>>]

Thrown(error) == [thrown |-> TRUE, result |-> <<>>, error |-> <<error>>]

\* the TypeError of reading property prop of undefined
TypeErrorReading(prop) ==
    [isError |-> TRUE,
     message |-> <<Piece("Cannot read properties of undefined (reading '"),
                   Piece(prop), Piece("')")>>]

\* command.data.prop, once command.data is known to be defined
Field(command, prop) ==
    IF prop \in DOMAIN command.data[1] THEN <<command.data[1][prop]>> ELSE <<>>

CommandResult(success, message, data) ==
    [success |-> success, message |-> message, data |-> data]

handleAddressCommand(command) ==
    Returned(CommandResult(TRUE,
        <<Piece("Processing address: "),
          IF command.addressMatch = <<>> THEN Piece("undefined")
          ELSE TextPiece(command.addressMatch[1].formatted)>>,
        <<[type |-> "address_detected", address |-> command.addressMatch]>>))

handleNavigationCommand(command) ==
    IF command.data = <<>> THEN Thrown(TypeErrorReading("target"))
    ELSE Returned(CommandResult(TRUE,
            <<Piece("Navigating to "), NamePiece(Field(command, "target"))>>,
            <<[type |-> "navigation", target |-> Field(command, "target")]>>))

handleMaintenanceCommand(command) ==
    IF command.data = <<>> THEN Thrown(TypeErrorReading("action"))
    ELSE Returned(CommandResult(TRUE,
            <<Piece("Creating maintenance work order...")>>,
            <<[type |-> "maintenance", action |-> Field(command, "action")]>>))

handleTenantCommand(command) ==
    IF command.data = <<>> THEN Thrown(TypeErrorReading("action"))
    ELSE Returned(CommandResult(TRUE,
            <<Piece("Opening tenant management...")>>,
            <<[type |-> "tenant", action |-> Field(command, "action")]>>))

handleAnalysisCommand(command) ==
    IF command.data = <<>> THEN Thrown(TypeErrorReading("analysisType"))
    ELSE Returned(CommandResult(TRUE,
            <<Piece("Running "), NamePiece(Field(command, "analysisType")),
              Piece(" analysis...")>>,
            <<[type |-> "analysis",
               analysisType |-> Field(command, "analysisType")]>>))

handleSearchCommand(command) ==
    IF command.data = <<>> THEN Thrown(TypeErrorReading("query"))
    ELSE Returned(CommandResult(TRUE,
            <<Piece("Searching for: "), TextValuePiece(Field(command, "query"))>>,
            <<[type |-> "search", query |-> Field(command, "query")]>>))

handleHelpCommand(command) ==
    Returned(CommandResult(TRUE,
        <<Piece("Here are some things you can try: ...")>>,
        <<[type |-> "help"]>>))

handleCreateCommand(command) ==
    IF command.data = <<>> THEN Thrown(TypeErrorReading("entity"))
    ELSE Returned(CommandResult(TRUE,
            <<Piece("Creating new "), NamePiece(Field(command, "entity")),
              Piece("...")>>,
            <<[type |-> "create", entity |-> Field(command, "entity")]>>))

\* the switch of executeCommand: what the body of the try block comes to
Dispatch(command) ==
    CASE command.type = "address" -> handleAddressCommand(command)
      [] command.type = "navigation" -> handleNavigationCommand(command)
      [] command.type = "maintenance" -> handleMaintenanceCommand(command)
      [] command.type = "tenant" -> handleTenantCommand(command)
      [] command.type = "analysis" -> handleAnalysisCommand(command)
      [] command.type = "search" -> handleSearchCommand(command)
      [] command.type = "help" -> handleHelpCommand(command)
      [] command.type = "create" -> handleCreateCommand(command)
      [] OTHER ->
            Returned(CommandResult(FALSE,
                <<Piece("Unknown command type: "), Piece(command.type)>>, <<>>))

Fulfilled(value) == [status |-> "fulfilled", value |-> <<value>>, reason |-> <<>>]

Rejected(reason) == [status |-> "rejected", value |-> <<>>, reason |-> <<reason>>]

\* a try block without its catch: what is thrown rejects the promise
Uncaught(outcome) ==
    IF outcome.thrown THEN Rejected(outcome.error[1])
    ELSE Fulfilled(outcome.result[1])

\* try { return await ... } catch (error) { return { success: false, ... } }
TryCatch(outcome) ==
    IF outcome.thrown
    THEN Fulfilled(CommandResult(FALSE,
            <<Piece("Error executing command: ")>> \o
            (IF outcome.error[1].isError THEN outcome.error[1].message
             ELSE <<Piece("Unknown error")>>),
            <<>>))
    ELSE Fulfilled(outcome.result[1])

\* the characters of the literal pieces of the messages of failure results
PieceText ==
    ("Unknown command type: " :> <<"U", "n", "k", "n", "o", "w", "n", " ", "c", "o", "m", "m", "a", "n", "d", " ", "t", "y", "p", "e", ":", " ">>) @@
    ("unknown" :> <<"u", "n", "k", "n", "o", "w", "n">>) @@
    ("scheduling" :> <<"s", "c", "h", "e", "d", "u", "l", "i", "n", "g">>) @@
    ("Error executing command: " :> <<"E", "r", "r", "o", "r", " ", "e", "x", "e", "c", "u", "t", "i", "n", "g", " ", "c", "o", "m", "m", "a", "n", "d", ":", " ">>) @@
    ("Unknown error" :> <<"U", "n", "k", "n", "o", "w", "n", " ", "e", "r", "r", "o", "r">>) @@
    ("Cannot read properties of undefined (reading '" :>
        <<"C", "a", "n", "n", "o", "t", " ", "r", "e", "a", "d", " ", "p", "r", "o", "p", "e", "r", "t", "i", "e", "s", " ", "o", "f", " ", "u", "n", "d", "e", "f", "i", "n", "e", "d", " ", "(", "r", "e", "a", "d", "i", "n", "g", " ", "'">>) @@
    ("target" :> <<"t", "a", "r", "g", "e", "t">>) @@
    ("action" :> <<"a", "c", "t", "i", "o", "n">>) @@
    ("analysisType" :> <<"a", "n", "a", "l", "y", "s", "i", "s", "T", "y", "p", "e">>) @@
    ("query" :> <<"q", "u", "e", "r", "y">>) @@
    ("entity" :> <<"e", "n", "t", "i", "t", "y">>) @@
    ("')" :> <<"'", ")">>)

\* the string a template literal evaluates to
RECURSIVE Rendered(_)
Rendered(message) ==
    IF message = <<>> THEN <<>>
    ELSE (IF Head(message).s = "" THEN Head(message).cs
          ELSE PieceText[Head(message).s]) \o Rendered(Tail(message))

\* executeCommand(command): how the promise it returns settles
executeCommand(command) == TryCatch(Dispatch(command))

(***************************************************************************)
(* PublicDataScraper (services/PublicDataScraper.ts)                       *)
(*                                                                         *)
(* Each of the 11 source queries is an async function: it runs up to its   *)
(* first await when scrapePropertyData calls it, and a throw on the way    *)
(* leaves its promise rejected at once.  A query that awaits a fetch is    *)
(* pending at that request until the network answers; fetch and the        *)
(* reading of the body that follows it are one step.                       *)
(***************************************************************************)
Sources ==
    <<"taxAssessment", "marketData", "permits", "violations", "sales",
      "demographics", "schools", "crime", "walkScore", "floodZone", "zoning">>

SourceSet == {Sources[k] : k \in 1..Len(Sources)}

\* the process.env entries the queries read
ApiKeys ==
    {"REALTYMOLE_API_KEY", "ATTOM_API_KEY", "RENTSPREE_API_KEY",
     "REALTOR_API_KEY", "WALKSCORE_API_KEY", "BUILDING_PERMITS_API_KEY"}

\* how the network answers a fetch: fetch rejects; the response is not ok;
\* the response is ok and its body holds a record / holds none
Responses == {"network_error", "http_error", "ok_data", "ok_empty"}

IsOk(response) == response \in {"ok_data", "ok_empty"}

\* the state of a query's promise; at names the request it is waiting for
\* and held the answer to an earlier request of the same query
Pending(at) ==
    [status |-> "pending", at |-> at, held |-> "", value |-> <<>>, reason |-> ""]

PendingHolding(at, held) ==
    [status |-> "pending", at |-> at, held |-> held, value |-> <<>>, reason |-> ""]

Resolve(value) ==
    [status |-> "fulfilled", at |-> "", held |-> "", value |-> <<value>>, reason |-> ""]

Reject(reason) ==
    [status |-> "rejected", at |-> "", held |-> "", value |-> <<>>, reason |-> reason]

NotCalled ==
    [status |-> "none", at |-> "", held |-> "", value |-> <<>>, reason |-> ""]

IsSettled(p) == p.status \in {"fulfilled", "rejected"}

\* address.split(','): the pieces between the commas, from position i
RECURSIVE SplitComma(_, _, _)
SplitComma(s, i, piece) ==
    IF i > Len(s) THEN <<piece>>
    ELSE IF s[i] = "," THEN <<piece>> \o SplitComma(s, i + 1, <<>>)
    ELSE SplitComma(s, i + 1, Append(piece, s[i]))

\* parseAddress(address)
parseAddress(address) ==
    LET pieces == SplitComma(address, 1, <<>>)
        parts == [k \in 1..Len(pieces) |-> trim(pieces[k])]
        part(k) == IF k <= Len(parts) THEN parts[k] ELSE <<>>
    IN  [street |-> part(1), city |-> part(2), state |-> part(3), zip |-> part(4)]

\* parseRealtyMoleData / parseAttomData: a body without a property gives the
\* record of defaults (zeros and empty strings)
TaxData(via, response) ==
    [kind |-> "TaxData", via |-> via, zeroFilled |-> response = "ok_empty"]

\* parseMarketData(rentData, valueData, address): a response that was not ok
\* contributes null, and its fields default to 0
MarketData(rentResponse, valueResponse) ==
    [kind |-> "MarketData",
     rentEstimate |-> IF rentResponse = "ok_data" THEN "estimate" ELSE "0",
     estimatedValue |-> IF valueResponse = "ok_data" THEN "price" ELSE "0"]

\* parseCensusData(data, city)
DemographicsData == [kind |-> "DemographicsData"]

\* data.walkscore || 0, of a body whose status is 1
WalkScoreOf(response) == IF response = "ok_data" THEN 72 ELSE 0

\* parsePermitData / parseChicagoPermits / parseLAPermits / parseNYCPermits
PermitsOf(response) == IF response = "ok_data" THEN <<"permit">> ELSE <<>>

\* a getTaxAssessmentData that asks Attom first
getTaxAssessmentDataAttomFirst(environment) ==
    IF "REALTYMOLE_API_KEY" \notin environment /\ "ATTOM_API_KEY" \notin environment
    THEN Reject("No API keys configured for tax assessment data")
    ELSE Pending("attom")

\* getTaxAssessmentData(address), up to its first await
getTaxAssessmentData(environment) ==
    IF "REALTYMOLE_API_KEY" \notin environment /\ "ATTOM_API_KEY" \notin environment
    THEN Reject("No API keys configured for tax assessment data")
    ELSE Pending("realtymole")

\* getAttomPropertyData(address), up to its first await
getAttomPropertyData(environment) ==
    IF "ATTOM_API_KEY" \notin environment
    THEN Reject("No Attom API key configured")
    ELSE Pending("attom")

\* getMarketData(address), up to its first await
getMarketData(environment) ==
    IF "RENTSPREE_API_KEY" \notin environment /\ "REALTOR_API_KEY" \notin environment
    THEN Reject("No API keys configured for market data")
    ELSE Pending("rentspree")

\* getPermitData(address) calling getCityPermits(city, state, address), up to
\* the first await: the request is chosen by the city
getPermitData(address) ==
    LET city == toLowerCase(parseAddress(address).city)
    IN  IF includes(city, <<"c","h","i","c","a","g","o">>) THEN Pending("chicago")
        ELSE IF includes(city, <<"l","o","s"," ","a","n","g","e","l","e","s">>) THEN Pending("los angeles")
        ELSE IF includes(city, <<"n","e","w"," ","y","o","r","k">>) THEN Pending("new york")
        ELSE Pending("buildingpermits")

\* getWalkScore(address), up to its first await
getWalkScore(environment) ==
    IF "WALKSCORE_API_KEY" \notin environment
    THEN Reject("No Walk Score API key configured")
    ELSE Pending("walkscore")

\* the call of source query s in the array handed to Promise.allSettled
CallSource(s, address, environment) ==
    CASE s = "taxAssessment" -> getTaxAssessmentData(environment)
      [] s = "marketData" -> getMarketData(environment)
      [] s = "permits" -> getPermitData(address)
      [] s = "violations" -> Reject("Violation data API not implemented")
      [] s = "sales" -> Reject("Sales history API not implemented")
      [] s = "demographics" -> Pending("census")
      [] s = "schools" -> Reject("School data API not implemented")
      [] s = "crime" -> Reject("Crime data API not implemented")
      [] s = "walkScore" -> getWalkScore(environment)
      [] s = "floodZone" -> Reject("FEMA flood zone API not implemented")
      [] s = "zoning" -> Reject("Zoning API not implemented")

\* the rest of a query from the answer to the request it is pending at
Resume(s, p, response, environment) ==
    CASE p.at = "realtymole" ->
            IF IsOk(response) THEN Resolve(TaxData("realtymole", response))
            ELSE getAttomPropertyData(environment)
      [] p.at = "attom" ->
            IF IsOk(response) THEN Resolve(TaxData("attom", response))
            ELSE Reject("Attom API failed")
      [] p.at = "rentspree" ->
            IF response = "network_error" THEN Reject("Market data API failed")
            ELSE PendingHolding("realtor", response)
      [] p.at = "realtor" ->
            IF response = "network_error" THEN Reject("Market data API failed")
            ELSE IF ~IsOk(p.held) /\ ~IsOk(response)
            THEN Reject("Market data API failed")
            ELSE Resolve(MarketData(p.held, response))
      [] p.at \in {"chicago", "los angeles", "new york", "buildingpermits"} ->
            IF IsOk(response) THEN Resolve(PermitsOf(response)) ELSE Resolve(<<>>)
      [] p.at = "census" ->
            IF response = "ok_data" THEN Resolve(DemographicsData)
            ELSE Reject("Census API failed")
      [] p.at = "walkscore" ->
            IF response = "ok_data" THEN Resolve(WalkScoreOf(response))
            ELSE Reject("Walk Score API failed")

\* Promise.all(promises): rejected as soon as one promise is rejected,
\* fulfilled with the values once all are fulfilled; <<>> while undecided
PromiseAll(promises) ==
    IF \E s \in SourceSet : promises[s].status = "rejected"
    THEN <<[status |-> "rejected", results |-> promises]>>
    ELSE IF \A s \in SourceSet : promises[s].status = "fulfilled"
    THEN <<[status |-> "fulfilled", results |-> promises]>>
    ELSE <<>>

\* Promise.allSettled(promises): fulfilled with every promise's result once
\* all of them have settled, never rejected; <<>> while one is pending
PromiseAllSettled(promises) ==
    IF \A s \in SourceSet : IsSettled(promises[s])
    THEN <<[status |-> "fulfilled", results |-> promises]>>
    ELSE <<>>

\* extractValue(result)
extractValue(result) ==
    IF result.status = "fulfilled" THEN result.value ELSE <<>>

\* a merge without the || [] defaults
OrUndefined(value) == value

\* extractValue(result) || []  (a list, even an empty one, is truthy)
OrEmptyList(value) == IF value = <<>> THEN <<<<>>>> ELSE value

\* a merge that reads the tax and the market result from each other's place
\* in the array of results
MergedResultCrossed(address, results) ==
    [address |-> address,
     taxAssessment |-> extractValue(results["marketData"]),
     marketData |-> extractValue(results["taxAssessment"]),
     permits |-> OrEmptyList(extractValue(results["permits"])),
     violations |-> OrEmptyList(extractValue(results["violations"])),
     sales |-> OrEmptyList(extractValue(results["sales"])),
     demographics |-> extractValue(results["demographics"]),
     schools |-> OrEmptyList(extractValue(results["schools"])),
     crime |-> extractValue(results["crime"]),
     walkScore |-> extractValue(results["walkScore"]),
     floodZone |-> extractValue(results["floodZone"]),
     zoning |-> extractValue(results["zoning"])]

\* the object scrapePropertyData returns
MergedResult(address, results) ==
    [address |-> address,
     taxAssessment |-> extractValue(results["taxAssessment"]),
     marketData |-> extractValue(results["marketData"]),
     permits |-> OrEmptyList(extractValue(results["permits"])),
     violations |-> OrEmptyList(extractValue(results["violations"])),
     sales |-> OrEmptyList(extractValue(results["sales"])),
     demographics |-> extractValue(results["demographics"]),
     schools |-> OrEmptyList(extractValue(results["schools"])),
     crime |-> extractValue(results["crime"]),
     walkScore |-> extractValue(results["walkScore"]),
     floodZone |-> extractValue(results["floodZone"]),
     zoning |-> extractValue(results["zoning"])]

(***************************************************************************)
(* State                                                                   *)
(***************************************************************************)
VARIABLES
    input,        \* the text in the command bar
    edits,        \* how many phrases have been typed into it
    activeTab,    \* propertyStore.activeTab
    processed,    \* <<>>, or <<the last call of processInput and its result>>
    executed,     \* <<>>, or <<the last call of executeCommand and its outcome>>
    environment,  \* the API keys configured in process.env
    call,         \* the call of scrapePropertyData: its position and address
    promises,     \* the promise of each source query of that call
    noData,       \* the source queries the network answered without any record
    attempts,     \* the requests of each source query answered so far, and how
    overtaken,    \* a query settled while one before it in the array was pending
    settled,      \* <<>>, or <<how the promise of scrapePropertyData settled>>
    showDataPreview,  \* UniversalCommandBar: the preview modal is shown
    previewAddress,   \* UniversalCommandBar: the address handed to the preview
    instance,     \* which mount of PropertyDataPreview is (or was last) on screen
    publicData,   \* PropertyDataPreview: <<>> (null) or <<the aggregated data>>
    loading,      \* PropertyDataPreview: the loading flag
    loads,        \* the calls loadPublicData made to scrapePropertyData
    properties,   \* propertyStore.properties
    isProcessing, \* UniversalCommandBar: the processing flag
    submissions,  \* the calls of handleSubmit that stand at an await, each
                  \* with the command processInput returned to it
    argument,     \* the text a caller of detectAddress holds, in its parts
    calls,        \* the calls of detectAddress made so far, with their results
    lastIndex     \* the lastIndex of each RegExp object of ADDRESS_PATTERNS

vars ==
    <<input, edits, activeTab, processed, executed,
      environment, call, promises, noData, attempts, overtaken, settled,
      showDataPreview, previewAddress, instance, publicData, loading, loads,
      properties, isProcessing, submissions, argument, calls, lastIndex>>

commandVars == <<input, edits, activeTab, processed, executed>>

scraperVars == <<environment, call, promises, noData, attempts, overtaken, settled>>

previewVars ==
    <<showDataPreview, previewAddress, instance, publicData, loading, loads,
      properties, isProcessing, submissions>>

addressVars == <<argument, calls, lastIndex>>

\* bounds of the model
MaxPhrases == 2

MaxLoads == 2

MaxProperties == 1

MaxCalls == 3

\* the texts handed to detectAddress, in their parts; each part carries the
\* separator in front of it, and the text is the parts put together
Parts(number, street, suffix, unit, place, zip) ==
    [number |-> number, street |-> street, suffix |-> suffix, unit |-> unit,
     place |-> place, zip |-> zip]

Text(parts) ==
    parts.number \o parts.street \o parts.suffix \o parts.unit \o parts.place
        \o parts.zip

NoParts == Parts(<<>>, <<>>, <<>>, <<>>, <<>>, <<>>)

Raw(text) == Parts(text, <<>>, <<>>, <<>>, <<>>, <<>>)

Numbers == {<<"1", "2", "3">>, <<>>}

StreetNames == {<<" ", "M", "a", "i", "n">>, <<" ", "a">>, <<" ", "D", "r", " ", "K", "i", "n", "g">>, <<>>}

\* the suffixes of the patterns: common ones (Street, St, Avenue), one that
\* is not among the first eight (Way), one that only STREET_SUFFIXES has
\* (Trail), or none
SuffixTexts == {<<" ", "S", "t", "r", "e", "e", "t">>, <<" ", "S", "t">>, <<" ", "A", "v", "e", "n", "u", "e">>, <<" ", "W", "a", "y">>, <<" ", "T", "r", "a", "i", "l">>, <<>>}

PatternSuffixTexts == {<<" ", "S", "t", "r", "e", "e", "t">>, <<" ", "S", "t">>, <<" ", "A", "v", "e", "n", "u", "e">>, <<" ", "W", "a", "y">>}

Places == {<<",", " ", "B", "o", "s", "t", "o", "n", " ", "M", "A">>, <<",", " ", "B", "o", "s", "t", "o", "n", ",", " ", "M", "A">>}

Zips == {<<" ", "0", "2", "1", "0", "1">>, <<" ", "0", "2", "1", "0", "1", "-", "1", "2", "3", "4">>}

Tails ==
    {[unit |-> unit, place |-> <<>>, zip |-> <<>>] : unit \in {<<>>, <<" ", "A", "p", "t", " ", "4", "B">>}}
        \cup {[unit |-> <<>>, place |-> place, zip |-> zip] :
                place \in Places, zip \in Zips \cup {<<>>}}

OddTexts ==
    {<<"1">>, <<"1", "2">>, <<"a", "b">>, <<" ", "7", " ">>, <<" ", " ", "1", "2", " ", " ">>, <<"1", "2", "3">>, <<"1", "2", " ", "a", "b">>, <<"1", "2", " ", " ", " ", " ", " ", "5">>,
     <<"1", "2", "3", "-", "4", "5", " ", "M", "a", "i", "n", " ", "S", "t">>, <<"n", "o", "t", " ", "a", "n", " ", "a", "d", "d", "r", "e", "s", "s">>, <<"M", "a", "i", "n", " ", "S", "t", "r", "e", "e", "t">>, <<"4", "5", "6", " ", "o", "a", "k", " ", "a", "v", "e", "n", "u", "e">>,
     <<" ", " ", "1", "2", "3", " ", "M", "a", "i", "n", " ", "S", "t", " ", " ">>}

AddressArguments ==
    {Parts(number, street, suffix, tail.unit, tail.place, tail.zip) :
        number \in Numbers, street \in StreetNames, suffix \in SuffixTexts,
        tail \in Tails}
        \cup {Raw(text) : text \in OddTexts}

\* the texts of the calls made between two calls on the same text
OtherArguments == {Raw(<<"1", "2">>), Parts(<<"1", "2", "3">>, <<" ", "M", "a", "i", "n">>, <<" ", "S", "t">>, <<>>, <<>>, <<>>)}

\* what a user types into the command bar, phrase by phrase
Phrases ==
    {<<"1","2","3"," ","M","a","i","n"," ","S","t">>, <<"1","2"," ","a","b">>, <<"g","o"," ","t","o"," ","i","n","t","e","l","l","i","g","e","n","c","e">>, <<"s","h","o","w">>, <<"o","p","e","r","a","t","i","o","n","s">>,
     <<"h","o","m","e">>, <<"S","c","h","e","d","u","l","e"," ","m","a","i","n","t","e","n","a","n","c","e">>, <<"m","a","r","k","e","t">>, <<"h","e","a","l","t","h">>, <<"h","e","l","p">>,
     <<"a","d","d"," ","t","e","n","a","n","t">>, <<"x","y","z","1","2","3">>, <<" ">>,
     <<"s","c","h","e","d","u","l","e">>, <<"n","e","w">>}

\* the addresses handed to scrapePropertyData
Addresses ==
    {<<"1","2","3"," ","M","a","i","n"," ","S","t",","," ","B","o","s","t","o","n",","," ","M","A"," ","0","2","1","0","1">>, <<"1"," ","O","a","k"," ","A","v","e",","," ","C","h","i","c","a","g","o",","," ","I","L",","," ","6","0","6","0","1">>}

CommandTypes ==
    {"address", "navigation", "maintenance", "tenant", "analysis", "search",
     "help", "create", "scheduling", "unknown"}

\* command objects a caller may hand to executeCommand besides those
\* processInput makes: every type, without data and with an empty data object
GivenCommands ==
    {Command(type, <<"x">>, 0, data, <<>>) :
        type \in CommandTypes, data \in {<<>>, <<<<>>>>}}

CommandIdle ==
    /\ input = <<>>
    /\ edits = 0
    /\ activeTab = "overview"
    /\ processed = <<>>
    /\ executed = <<>>

ScraperIdle ==
    /\ call = [pc |-> "idle", address |-> <<>>]
    /\ promises = [s \in SourceSet |-> NotCalled]
    /\ noData = {}
    /\ attempts = [s \in SourceSet |-> <<>>]
    /\ overtaken = FALSE
    /\ settled = <<>>

PreviewIdle ==
    /\ showDataPreview = FALSE
    /\ previewAddress = <<>>
    /\ instance = 0
    /\ publicData = <<>>
    /\ loading = FALSE
    /\ loads = <<>>
    /\ properties = <<>>
    /\ isProcessing = FALSE
    /\ submissions = <<>>

AddressIdle ==
    /\ argument = NoParts
    /\ calls = <<>>
    /\ lastIndex = [i \in 0..(Len(ADDRESS_PATTERNS) - 1) |-> 0]

(***************************************************************************)
(* The command pipeline                                                    *)
(***************************************************************************)
\* setInput: the user types one more phrase
SetInput(phrase) ==
    /\ processed = <<>> /\ executed = <<>>
    /\ edits < MaxPhrases
    /\ input' = IF input = <<>> THEN phrase ELSE input \o <<" ">> \o phrase
    /\ edits' = edits + 1
    /\ UNCHANGED <<activeTab, processed, executed, scraperVars, previewVars, addressVars>>

\* setActiveTab(tab), between commands
SetActiveTab(tab) ==
    /\ processed = <<>> /\ executed = <<>>
    /\ tab # activeTab
    /\ activeTab' = tab
    /\ UNCHANGED <<input, edits, processed, executed, scraperVars, previewVars, addressVars>>

\* processInput(input, { activeTab }) or processInput(input)
ProcessInput(tab) ==
    /\ processed = <<>> /\ executed = <<>>
    /\ LET r == processInput(input, tab)
       IN  processed' = <<[input |-> input, activeTab |-> tab,
                           command |-> r.command, stages |-> r.stages]>>
    /\ UNCHANGED <<input, edits, activeTab, executed, scraperVars, previewVars, addressVars>>

\* executeCommand(command) on the command processInput returned
ExecuteCommand ==
    /\ processed # <<>> /\ executed = <<>>
    /\ executed' = <<[command |-> processed[1].command,
                      outcome |-> executeCommand(processed[1].command)]>>
    /\ UNCHANGED <<input, edits, activeTab, processed, scraperVars, previewVars, addressVars>>

\* executeCommand(command) on a command object made by another caller
ExecuteGiven(command) ==
    /\ processed = <<>> /\ executed = <<>> /\ input = <<>>
    /\ executed' = <<[command |-> command, outcome |-> executeCommand(command)]>>
    /\ UNCHANGED <<input, edits, activeTab, processed, scraperVars, previewVars, addressVars>>

\* the command is done with: the bar is cleared for the next one
NextCommand ==
    /\ processed # <<>> \/ executed # <<>>
    /\ input' = <<>>
    /\ edits' = 0
    /\ processed' = <<>>
    /\ executed' = <<>>
    /\ UNCHANGED <<activeTab, scraperVars, previewVars, addressVars>>

(***************************************************************************)
(* The aggregation coordinator                                             *)
(***************************************************************************)
\* scrapePropertyData(address) up to its await: every source query is called
ScrapePropertyData(address) ==
    /\ call.pc = "idle"
    /\ call' = [pc |-> "awaiting", address |-> address]
    /\ promises' = [s \in SourceSet |-> CallSource(s, address, environment)]
    /\ UNCHANGED <<environment, noData, attempts, overtaken, settled, commandVars, previewVars, addressVars>>

\* the network answers the request source query s is waiting for
Respond(s, response) ==
    /\ promises[s].status = "pending"
    /\ promises' = [promises EXCEPT ![s] = Resume(s, promises[s], response, environment)]
    /\ noData' = IF response = "ok_empty" /\ promises[s].held # "ok_data"
                 THEN noData \cup {s} ELSE noData \ {s}
    /\ attempts' = [attempts EXCEPT ![s] =
                        Append(@, [at |-> promises[s].at, ok |-> IsOk(response)])]
    /\ overtaken' =
          \/ overtaken
          \/ /\ IsSettled(promises'[s])
             /\ \E i \in 1..Len(Sources), j \in 1..Len(Sources) :
                   i < j /\ Sources[j] = s /\ promises[Sources[i]].status = "pending"
    /\ UNCHANGED <<environment, call, settled, commandVars, previewVars, addressVars>>

\* await Promise.allSettled([...]) is over: scrapePropertyData returns
Return ==
    /\ call.pc = "awaiting"
    /\ PromiseAllSettled(promises) # <<>>
    /\ LET all == PromiseAllSettled(promises)[1]
       IN  settled' =
             IF all.status = "fulfilled"
             THEN <<[status |-> "fulfilled",
                     value |-> <<MergedResult(call.address, all.results)>>]>>
             ELSE <<[status |-> "rejected", value |-> <<>>]>>
    /\ call' = [call EXCEPT !.pc = "returned"]
    /\ UNCHANGED <<environment, promises, noData, attempts, overtaken, commandVars, previewVars, addressVars>>

(***************************************************************************)
(* The command bar and the data preview (UniversalCommandBar.handleSubmit, *)
(* PropertyDataPreview).  A handler runs to its end before the next event: *)
(* processInput, executeCommand and createPropertyFromInput await nothing  *)
(* but themselves, so isProcessing and creating are false between events.  *)
(* Only scrapePropertyData waits for the network.                          *)
(***************************************************************************)
\* CONTEXTUAL_SUGGESTIONS.overview, the suggestions the bar offers
Suggestions ==
    {<<"1", "2", "3", " ", "M", "a", "i", "n", " ", "S", "t", "r", "e", "e", "t">>, <<"A", "d", "d", " ", "n", "e", "w", " ", "p", "r", "o", "p", "e", "r", "t", "y">>,
     <<"S", "e", "a", "r", "c", "h", " ", "p", "r", "o", "p", "e", "r", "t", "i", "e", "s">>}

\* the address geolocationService.getCurrentAddress() resolves to
LocatedAddresses == {<<"1", " ", "O", "a", "k", " ", "A", "v", "e", ",", " ", "C", "h", "i", "c", "a", "g", "o", ",", " ", "I", "L", ",", " ", "6", "0", "6", "0", "1">>}

\* two ways the 11 promises of a call of scrapePropertyData settle: every
\* query fails, and the tax and walk score queries fulfil
NothingFulfilled ==
    [s \in SourceSet |->
        IF s = "permits" THEN Resolve(<<>>) ELSE Reject("failed")]

TaxFulfilled ==
    [NothingFulfilled EXCEPT
        !["taxAssessment"] = Resolve(TaxData("realtymole", "ok_data")),
        !["walkScore"] = Resolve(WalkScoreOf("ok_data"))]

\* what scrapePropertyData(address) may resolve to
ScrapeOutcomes(address) ==
    {MergedResult(address, results) : results \in {NothingFulfilled, TaxFulfilled}}

\* createPropertyFromInput(propertyInput) with property.publicData set
PropertyFrom(data) == [address |-> data.address, publicData |-> <<data>>]

\* createProperty(): if (!publicData) return; ... addProperty(property)
createProperty(data, store) ==
    IF data = <<>> THEN store ELSE Append(store, PropertyFrom(data[1]))

\* loadPublicData() up to its await, for the mount it runs in
StartLoad(mounted, address) ==
    Append(loads, [instance |-> mounted, address |-> address,
                   status |-> "pending", data |-> <<>>])

\* setPreviewAddress(address); setShowDataPreview(true), with the render and
\* the effect that follow: a mount, or a new address for the mounted preview,
\* runs loadPublicData
ShowPreview(address) ==
    /\ previewAddress' = address
    /\ showDataPreview' = TRUE
    /\ IF ~showDataPreview
       THEN /\ Len(loads) < MaxLoads
            /\ instance' = instance + 1
            /\ publicData' = <<>>
            /\ loading' = TRUE
            /\ loads' = StartLoad(instance + 1, address)
       ELSE IF address # previewAddress
       THEN /\ Len(loads) < MaxLoads
            /\ loading' = TRUE
            /\ loads' = StartLoad(instance, address)
            /\ UNCHANGED <<instance, publicData>>
       ELSE UNCHANGED <<instance, publicData, loading, loads>>

\* a handleSubmit that makes the property of a detected address itself
HandleSubmitCreating ==
    /\ trim(input) # <<>>
    /\ \E command \in {processInput(input, activeTab).command} :
           IF command.type = "address" /\ command.addressMatch # <<>>
           THEN /\ ShowPreview(command.addressMatch[1].formatted)
                /\ Len(properties) < MaxProperties
                /\ properties' =
                     Append(properties,
                            [address |-> command.addressMatch[1].formatted,
                             publicData |-> <<>>])
                /\ UNCHANGED <<isProcessing, submissions>>
           ELSE UNCHANGED previewVars
    /\ input' = <<>>
    /\ edits' = 0
    /\ UNCHANGED <<activeTab, processed, executed, scraperVars, addressVars>>

\* handleSuggestionClick(suggestion)
HandleSuggestionClick(suggestion) ==
    /\ input' = suggestion
    /\ edits' = 1
    /\ UNCHANGED <<activeTab, processed, executed, scraperVars, previewVars, addressVars>>

\* a handleSubmit without the test of isProcessing
HandleSubmitUnguarded ==
    IF trim(input) = <<>>
    THEN UNCHANGED vars
    ELSE /\ isProcessing' = TRUE
         /\ \E r \in {processInput(input, activeTab)} :
               /\ processed' = <<[input |-> input, activeTab |-> activeTab,
                                   command |-> r.command, stages |-> r.stages]>>
               /\ submissions' = Append(submissions, r.command)
         /\ UNCHANGED <<input, edits, activeTab, executed, showDataPreview,
                        previewAddress, instance, publicData, loading, loads,
                        properties, scraperVars, addressVars>>

\* handleSubmit up to its first await: the early return, or
\* setIsProcessing(true) and the call of processInput, whose promise the
\* handler then awaits
HandleSubmit ==
    IF trim(input) = <<>> \/ isProcessing
    THEN UNCHANGED vars
    ELSE /\ isProcessing' = TRUE
         /\ \E r \in {processInput(input, activeTab)} :
               /\ processed' = <<[input |-> input, activeTab |-> activeTab,
                                   command |-> r.command, stages |-> r.stages]>>
               /\ submissions' = Append(submissions, r.command)
         /\ UNCHANGED <<input, edits, activeTab, executed, showDataPreview,
                        previewAddress, instance, publicData, loading, loads,
                        properties, scraperVars, addressVars>>

\* handleSubmit from its first await on: an address command opens the
\* preview, any other command is executed (its result changes nothing but
\* the route); threw is whether the try block ended in the catch block; the
\* finally block clears the input and the processing flag either way
FinishSubmit(threw) ==
    /\ submissions # <<>>
    /\ \E command \in {Head(submissions)} :
           IF ~threw /\ command.type = "address" /\ command.addressMatch # <<>>
           THEN ShowPreview(command.addressMatch[1].formatted)
           ELSE /\ threw \/ executeCommand(command).status = "fulfilled"
                /\ UNCHANGED <<showDataPreview, previewAddress, instance,
                               publicData, loading, loads>>
    /\ submissions' = Tail(submissions)
    /\ input' = <<>>
    /\ edits' = 0
    /\ isProcessing' = FALSE
    /\ UNCHANGED <<activeTab, processed, executed, properties, scraperVars, addressVars>>

\* getCurrentLocationAddress, when the location is found
GetCurrentLocationAddress(address) ==
    /\ input' = address
    /\ edits' = 1
    /\ ShowPreview(address)
    /\ UNCHANGED <<activeTab, processed, executed, properties, isProcessing,
                   submissions, scraperVars, addressVars>>

\* scrapePropertyData resolves for load k: setPublicData(data) and
\* setLoading(false), which a preview that was closed since ignores
LoadReturns(k) ==
    /\ loads[k].status = "pending"
    /\ \E data \in ScrapeOutcomes(loads[k].address) :
         /\ loads' = [loads EXCEPT ![k] =
                         [@ EXCEPT !.status = "returned", !.data = <<data>>]]
         /\ IF showDataPreview /\ loads[k].instance = instance
            THEN publicData' = <<data>> /\ loading' = FALSE
            ELSE UNCHANGED <<publicData, loading>>
    /\ UNCHANGED <<showDataPreview, previewAddress, instance, properties,
                   isProcessing, submissions, commandVars, scraperVars, addressVars>>

\* a click on 'Create Property with This Data', which the preview renders
\* when it is not loading and has data
ClickCreate ==
    /\ showDataPreview /\ ~loading /\ publicData # <<>>
    /\ Len(properties) < MaxProperties
    /\ properties' = createProperty(publicData, properties)
    /\ UNCHANGED <<showDataPreview, previewAddress, instance, publicData,
                   loading, loads, isProcessing, submissions, commandVars,
                   scraperVars, addressVars>>

\* onClose, from the buttons of a preview that is not loading
ClosePreview ==
    /\ showDataPreview /\ ~loading
    /\ showDataPreview' = FALSE
    /\ previewAddress' = <<>>
    /\ publicData' = <<>>
    /\ loading' = FALSE
    /\ UNCHANGED <<instance, loads, properties, isProcessing, submissions,
                   commandVars, scraperVars, addressVars>>

(***************************************************************************)
(* The callers of detectAddress                                            *)
(***************************************************************************)
\* the record of one call detectAddress(Text(parts))
Call(parts) ==
    LET traced == detectAddressTraced(Text(parts))
    IN  [parts |-> parts, input |-> Text(parts), result |-> traced.result,
         patterns |-> traced.patterns, fallback |-> traced.fallback]

\* a caller turns to another text
ChangeArgument(parts) ==
    /\ parts # argument
    /\ argument' = parts
    /\ UNCHANGED <<calls, lastIndex, commandVars, scraperVars, previewVars>>

\* a detectAddress whose patterns are global RegExp objects applied with
\* exec: a match leaves its end in lastIndex, where the next call starts
DetectAddressSticky ==
    /\ Len(calls) < MaxCalls
    /\ LET fresh == Call(argument)
           made == IF lastIndex[0] = 0 THEN fresh
                   ELSE [fresh EXCEPT !.result = NotAnAddress(fresh.input)]
       IN  /\ calls' = Append(calls, made)
           /\ lastIndex' =
                 [lastIndex EXCEPT
                     ![0] = IF made.result.isAddress
                            THEN Len(made.result.formatted) ELSE 0]
    /\ UNCHANGED <<argument, commandVars, scraperVars, previewVars>>

\* detectAddress(input): String.prototype.match with a RegExp that has no g
\* flag neither reads nor writes its lastIndex
DetectAddress ==
    /\ Len(calls) < MaxCalls
    /\ calls' = Append(calls, Call(argument))
    /\ UNCHANGED <<argument, lastIndex, commandVars, scraperVars, previewVars>>

(***************************************************************************)
(* Specifications                                                          *)
(***************************************************************************)
CommandInit ==
    /\ CommandIdle
    /\ ScraperIdle
    /\ PreviewIdle
    /\ AddressIdle
    /\ environment = {}

CommandNext ==
    \/ \E phrase \in Phrases : SetInput(phrase)
    \/ \E tab \in Tabs : SetActiveTab(tab)
    \/ \E tab \in {activeTab, NoTab} : ProcessInput(tab)
    \/ ExecuteCommand
    \/ \E command \in GivenCommands : ExecuteGiven(command)
    \/ NextCommand

CommandSpec == CommandInit /\ [][CommandNext]_vars

ScraperInit ==
    /\ CommandIdle
    /\ ScraperIdle
    /\ PreviewIdle
    /\ AddressIdle
    /\ environment \in SUBSET ApiKeys

ScraperNext ==
    \/ \E address \in Addresses : ScrapePropertyData(address)
    \/ \E s \in SourceSet, response \in Responses : Respond(s, response)
    \/ Return

ScraperSpec == ScraperInit /\ [][ScraperNext]_vars

\* the environments termination is checked in: every key, no key, and one
\* tax key without the other
TerminationEnvironments ==
    {ApiKeys, {}, {"ATTOM_API_KEY"}, {"REALTYMOLE_API_KEY"}}

ScraperFairInit ==
    /\ CommandIdle
    /\ ScraperIdle
    /\ PreviewIdle
    /\ AddressIdle
    /\ environment \in TerminationEnvironments

\* the call under the scheduling the claim of termination assumes: the
\* request of every pending query is answered at last, and the continuation
\* of the await runs once Promise.allSettled has resolved
ScraperFairSpec ==
    /\ ScraperFairInit
    /\ [][ScraperNext]_vars
    /\ \A s \in SourceSet : WF_vars(\E response \in Responses : Respond(s, response))
    /\ WF_vars(Return)

PreviewInit == CommandInit

PreviewNext ==
    \/ \E suggestion \in Suggestions : HandleSuggestionClick(suggestion)
    \/ HandleSubmit
    \/ \E threw \in BOOLEAN : FinishSubmit(threw)
    \/ \E address \in LocatedAddresses : GetCurrentLocationAddress(address)
    \/ \E k \in 1..Len(loads) : LoadReturns(k)
    \/ ClickCreate
    \/ ClosePreview

PreviewSpec == PreviewInit /\ [][PreviewNext]_vars


AddressInit ==
    /\ CommandIdle
    /\ ScraperIdle
    /\ PreviewIdle
    /\ calls = <<>>
    /\ lastIndex = [i \in 0..(Len(ADDRESS_PATTERNS) - 1) |-> 0]
    /\ argument \in AddressArguments
    /\ environment = {}

AddressNext ==
    \/ DetectAddress
    \/ \E parts \in OtherArguments : ChangeArgument(parts)

AddressSpec == AddressInit /\ [][AddressNext]_vars

(***************************************************************************)
(* Properties of the aggregation coordinator (ScraperSpec)                 *)
(***************************************************************************)
\* C1: scrapePropertyData calls all 11 source queries and does not return
\* until each of them has settled; a query that rejects at once does not make
\* it return early, so the value of every query that fulfils, however late,
\* is in the merged result.
C1_ReturnsAfterEverySourceSettled ==
    /\ call.pc # "idle" => \A s \in SourceSet : promises[s].status # "none"
    /\ settled # <<>> =>
         /\ \A s \in SourceSet : IsSettled(promises[s])
         /\ settled[1].status = "fulfilled"
         /\ \A s \in SourceSet :
                promises[s].status = "fulfilled" =>
                    settled[1].value[1][s] = promises[s].value

\* the call has returned; the violations query rejected when it was called
\* and the demographics query fulfilled after its request was answered, and
\* its record is in the merged result
C1_LateSourceIsMerged ==
    /\ settled # <<>>
    /\ promises["violations"].status = "rejected"
    /\ promises["demographics"].status = "fulfilled"
    /\ settled[1].status = "fulfilled"
    /\ settled[1].value[1].demographics # <<>>
    /\ settled[1].value[1].demographics = promises["demographics"].value

\* C2: whichever source queries fail, the merged result holds exactly the
\* categories whose query fulfilled, and nothing at all (no placeholder, no
\* empty list) for a category whose query failed.
C2_OnlyFulfilledCategories ==
    (settled # <<>> /\ settled[1].status = "fulfilled") =>
        \A s \in SourceSet :
            settled[1].value[1][s] =
                IF promises[s].status = "fulfilled"
                THEN promises[s].value
                ELSE <<>>

\* C3: scrapePropertyData never rejects: whatever each source query does
\* (no credential, HTTP error, network exception, not implemented), once
\* they have all settled the call can return, and it returns fulfilled with
\* a merged result object.
C3_NeverRejects ==
    /\ settled # <<>> =>
         /\ settled[1].status = "fulfilled"
         /\ settled[1].value # <<>>
    /\ (call.pc = "awaiting" /\ \A s \in SourceSet : IsSettled(promises[s])) =>
         ENABLED Return

\* the call has returned a merged result although every query but the
\* permits one rejected and the permits request itself failed
C3_EverySourceFailed ==
    /\ settled # <<>>
    /\ settled[1].status = "fulfilled"
    /\ settled[1].value # <<>>
    /\ \A s \in SourceSet \ {"permits"} : promises[s].status = "rejected"
    /\ promises["permits"].value = <<<<>>>>

(***************************************************************************)
(* Properties of the command pipeline (CommandSpec)                        *)
(***************************************************************************)
\* the keywords of each tab's contextual rules
OperationsKeywords ==
    {<<"m","a","i","n","t","e","n","a","n","c","e">>, <<"r","e","p","a","i","r">>, <<"t","e","n","a","n","t">>, <<"l","e","a","s","e">>, <<"s","c","h","e","d","u","l","e">>,
     <<"a","p","p","o","i","n","t","m","e","n","t">>}

TabKeywords(tab) ==
    CASE tab = "overview" -> {<<"h","e","a","l","t","h">>, <<"s","c","o","r","e">>, <<"a","l","e","r","t">>, <<"i","s","s","u","e">>}
      [] tab = "operations" -> OperationsKeywords
      [] tab = "intelligence" ->
            {<<"m","a","r","k","e","t">>, <<"c","o","m","p">>, <<"v","a","l","u","e">>, <<"r","e","n","t">>, <<"p","r","i","c","i","n","g">>, <<"e","x","p","e","n","s","e">>,
             <<"c","o","s","t">>}
      [] OTHER -> {}

HasKeyword(text, keywords) ==
    \E k \in keywords : includes(toLowerCase(text), k)

\* the types of the Operations rules' commands
DomainActions == {"maintenance", "tenant", "scheduling"}

\* the navigation phrases and the word that names each destination
NavigationPhrases == {<<"g","o"," ","t","o">>, <<"n","a","v","i","g","a","t","e">>, <<"s","h","o","w">>}

DestinationWord ==
    [overview |-> <<"o","v","e","r","v","i","e","w">>, operations |-> <<"o","p","e","r","a","t","i","o","n","s">>,
     intelligence |-> <<"i","n","t","e","l","l","i","g","e","n","c","e">>, home |-> <<"h","o","m","e">>]

StageOrder == <<"address", "contextual", "general", "search">>

SearchCommand(query) == Command("search", query, 50, <<[query |-> query]>>, <<>>)

\* the classification of a text when no contextual rule exists
WithoutContext(text) ==
    LET g == detectGeneralCommand(text)
    IN  IF g.confidence > 60 THEN g ELSE SearchCommand(text)

IsBlank(text) == \A i \in 1..Len(text) : text[i] \in Whitespace

Contains(text, part) ==
    \E i \in 1..(Len(text) - Len(part) + 1) :
        SubSeq(text, i, i + Len(part) - 1) = part

\* C4: an input detectAddress recognises with confidence > 0.6 is returned
\* as an address command with that confidence and the address match
\* attached, on every tab and without a tab, whatever keywords it contains.
C4_AddressPreempts ==
    processed # <<>> =>
        LET p == processed[1]
            a == detectAddress(p.input)
        IN  (a.isAddress /\ a.confidence > 60) =>
                /\ p.command.type = "address"
                /\ p.command.confidence = a.confidence
                /\ p.command.addressMatch = <<a>>

\* on the Operations tab an address followed by an Operations keyword was
\* returned as an address command
C4_AddressWithKeyword ==
    /\ processed # <<>>
    /\ processed[1].activeTab = "operations"
    /\ HasKeyword(processed[1].input, {<<"m","a","i","n","t","e","n","a","n","c","e">>})
    /\ processed[1].command.type = "address"
    /\ processed[1].command.addressMatch # <<>>
    /\ processed[1].command.addressMatch[1].isAddress

\* C5: processInput consults the stages in the order address, contextual,
\* general, search, and returns the result of the first one that clears its
\* threshold (> 0.6, > 0.7, > 0.6), consulting none after it; so a text that
\* is no address and has a contextual keyword of the active tab gets the
\* contextual rule's command even when a general rule matches it too.
C5_FirstAcceptingStage ==
    (processed # <<>> /\ ~IsBlank(processed[1].input)) =>
        LET p == processed[1]
            t == trim(p.input)
            a == detectAddress(t)
            c == detectContextualCommand(t, p.activeTab)
            g == detectGeneralCommand(t)
            first == IF a.isAddress /\ a.confidence > 60 THEN 1
                     ELSE IF c.confidence > 70 THEN 2
                     ELSE IF g.confidence > 60 THEN 3
                     ELSE 4
        IN  /\ p.stages = SubSeq(StageOrder, 1, first)
            /\ first = 1 => p.command.type = "address" /\ p.command.addressMatch = <<a>>
            /\ first = 2 => p.command = c
            /\ first = 3 => p.command = g
            /\ first = 4 => p.command.type = "search"

\* on the Operations tab a text with an Operations keyword that a general
\* rule matches too was returned as the contextual rule's command, the
\* general stage not consulted
C5_ContextualBeforeGeneral ==
    /\ processed # <<>>
    /\ processed[1].activeTab = "operations"
    /\ processed[1].command.type = "maintenance"
    /\ detectGeneralCommand(trim(processed[1].input)).confidence > 60
    /\ processed[1].stages = <<"address", "contextual">>

C7_BlankInputUnknown ==
    (processed # <<>> /\ IsBlank(processed[1].input)) =>
        /\ processed[1].command.type = "unknown"
        /\ processed[1].command.confidence = 0
        /\ processed[1].stages = <<>>

\* an input of whitespace only was processed on the Operations tab
C7_WhitespaceOnlyProcessed ==
    /\ processed # <<>>
    /\ processed[1].input # <<>>
    /\ IsBlank(processed[1].input)
    /\ processed[1].activeTab = "operations"
    /\ processed[1].command.type = "unknown"
    /\ processed[1].stages = <<>>

\* C8 (as the code has it): the contextual rules of a tab fire only when
\* that tab is the active one.  A text that is no address and has an
\* Operations keyword is, on the Operations tab, a domain action with
\* confidence >= 0.7; on another tab or without a tab the Operations rules
\* add nothing: the text gets the command of the active tab's own contextual
\* rule when it has one of that tab's keywords, and otherwise exactly what it
\* would get if no contextual rule existed (a general rule or search at 0.5).
C8_OperationsRulesOnOperationsTabOnly ==
    processed # <<>> =>
        LET p == processed[1]
            t == trim(p.input)
        IN  (/\ ~IsBlank(p.input)
             /\ ~detectAddress(t).isAddress
             /\ HasKeyword(t, OperationsKeywords)) =>
                /\ p.activeTab = "operations" =>
                       /\ p.command.type \in DomainActions
                       /\ p.command.confidence >= 70
                /\ p.activeTab # "operations" =>
                       /\ p.command.type \notin DomainActions
                       /\ IF HasKeyword(t, TabKeywords(p.activeTab))
                          THEN /\ p.command.type = "analysis"
                               /\ p.command = detectContextualCommand(t, p.activeTab)
                          ELSE p.command = WithoutContext(t)

\* on the Intelligence tab a text with an Operations keyword and a keyword of
\* the Intelligence tab was returned as that tab's analysis command, which no
\* general rule and no search gives
C8_OtherTabsOwnRule ==
    /\ processed # <<>>
    /\ processed[1].activeTab = "intelligence"
    /\ ~detectAddress(processed[1].input).isAddress
    /\ HasKeyword(processed[1].input, OperationsKeywords)
    /\ processed[1].command.type = "analysis"
    /\ processed[1].command # WithoutContext(trim(processed[1].input))

\* C8 as stated: ... on another tab or without a tab the text gets exactly
\* what it would get if no contextual rule existed.
C8_OtherTabsAsWithoutContext ==
    processed # <<>> =>
        LET p == processed[1]
            t == trim(p.input)
        IN  (/\ ~IsBlank(p.input)
             /\ ~detectAddress(t).isAddress
             /\ HasKeyword(t, OperationsKeywords)) =>
                /\ p.activeTab = "operations" =>
                       /\ p.command.type \in DomainActions
                       /\ p.command.confidence >= 70
                /\ p.activeTab # "operations" => p.command = WithoutContext(t)

\* C9: an input with a navigation phrase ('go to', 'navigate', 'show') and
\* the name of a tab or 'home', which neither the address stage nor the
\* contextual stage takes, is returned as a navigation command with
\* confidence 0.9 whose data.target is a destination the input names.
C9_NavigationTarget ==
    processed # <<>> =>
        LET p == processed[1]
            t == trim(p.input)
            a == detectAddress(t)
            c == detectContextualCommand(t, p.activeTab)
            named == {d \in DOMAIN DestinationWord :
                         HasKeyword(t, {DestinationWord[d]})}
        IN  (/\ ~IsBlank(p.input)
             /\ ~(a.isAddress /\ a.confidence > 60)
             /\ ~(c.confidence > 70)
             /\ HasKeyword(t, NavigationPhrases)
             /\ named # {}) =>
                /\ p.command.type = "navigation"
                /\ p.command.confidence = 90
                /\ p.command.data # <<>>
                /\ p.command.data[1].target \in named

\* 'go to intelligence' was returned as navigation to intelligence
C9_GoToIntelligence ==
    /\ processed # <<>>
    /\ processed[1].input = <<"g","o"," ","t","o"," ","i","n","t","e","l","l","i","g","e","n","c","e">>
    /\ processed[1].command.type = "navigation"
    /\ processed[1].command.confidence = 90
    /\ processed[1].command.data = <<[target |-> "intelligence"]>>

\* C10: executeCommand never rejects, whatever the command object: an
\* exception thrown while the command is handled (a handler reading a
\* property of a missing payload) is caught and returned as a result with
\* success = false whose message contains the exception's message.
C10_ExecuteNeverRejects ==
    executed # <<>> =>
        LET x == executed[1]
            handled == Dispatch(x.command)
        IN  /\ x.outcome.status = "fulfilled"
            /\ handled.thrown =>
                   /\ ~x.outcome.value[1].success
                   /\ Contains(x.outcome.value[1].message, handled.error[1].message)

\* a navigation command without data was executed: its handler threw and
\* the promise fulfilled with a failure result
C10_HandlerThrewAndWasCaught ==
    /\ executed # <<>>
    /\ executed[1].command.type = "navigation"
    /\ executed[1].command.data = <<>>
    /\ Dispatch(executed[1].command).thrown
    /\ executed[1].outcome.status = "fulfilled"
    /\ ~executed[1].outcome.value[1].success

\* C11: every result of executeCommand with success = false has a non-empty
\* message, and for a command of type unknown that message names (contains)
\* the input text that was not recognised.
C11_FailureMessageNamesInput ==
    (executed # <<>> /\ executed[1].outcome.status = "fulfilled") =>
        LET x == executed[1]
            result == x.outcome.value[1]
        IN  ~result.success =>
                /\ Rendered(result.message) # <<>>
                /\ x.command.type = "unknown" =>
                       Contains(Rendered(result.message), x.command.input)

IsStreetAddress(parts) ==
    /\ parts.number # <<>>
    /\ parts.street # <<>>
    /\ parts.suffix \in PatternSuffixTexts

\* the street name and its suffix, without the separator in front
StreetText(parts) == Tail(parts.street \o parts.suffix)

\* the suffixes of SuffixTexts that are among the first eight of
\* STREET_SUFFIXES
CommonSuffixTexts == {<<" ", "S", "t", "r", "e", "e", "t">>, <<" ", "S", "t">>, <<" ", "A", "v", "e", "n", "u", "e">>}

\* C13: for every input made of number, street, street suffix, city, state
\* and ZIP, detectAddress returns the match of the ZIP-bearing pattern (the
\* third one) and not that of the bare number+street pattern, so the
\* confidence is at least 0.98.
C13_ZipPatternWins ==
    \A k \in 1..Len(calls) :
        LET c == calls[k]
        IN  (IsStreetAddress(c.parts) /\ c.parts.place # <<>> /\ c.parts.zip # <<>>) =>
                /\ c.result.isAddress
                /\ c.patterns = 3
                /\ c.result.components.zip # <<>>
                /\ c.result.confidence >= 98

\* C14: for every input made of number, street name and street suffix only,
\* detectAddress returns isAddress = true, the leading digits as number, the
\* street text with its suffix as street, and the confidence 0.90, plus 0.05
\* if the suffix is one of the eight common ones, minus 0.10 if the street
\* text is shorter than 4 characters.
C14_PlainAddressConfidence ==
    \A k \in 1..Len(calls) :
        LET c == calls[k]
        IN  (/\ IsStreetAddress(c.parts)
             /\ c.parts.unit = <<>> /\ c.parts.place = <<>> /\ c.parts.zip = <<>>) =>
                /\ c.result.isAddress
                /\ c.result.components.number = <<c.parts.number>>
                /\ c.result.components.street = <<StreetText(c.parts)>>
                /\ c.result.confidence =
                      90 + (IF c.parts.suffix \in CommonSuffixTexts THEN 5 ELSE 0)
                         - (IF Len(StreetText(c.parts)) < 4 THEN 10 ELSE 0)

\* C15: every result of detectAddress with isAddress = true has a confidence
\* above 0.6 and a street component that is not empty, whether a pattern or
\* the fallback produced it.
C15_AddressResultsAboveThreshold ==
    \A k \in 1..Len(calls) :
        calls[k].result.isAddress =>
            /\ calls[k].result.confidence > 60
            /\ calls[k].result.components.street # <<>>
            /\ calls[k].result.components.street[1] # <<>>

\* addresses were returned by the first pattern, by the last pattern and by
\* the fallback
C15_PatternAndFallbackAddresses ==
    /\ \E k \in 1..Len(calls) :
          calls[k].result.isAddress /\ calls[k].fallback
    /\ \E k \in 1..Len(calls) :
          calls[k].result.isAddress /\ ~calls[k].fallback /\ calls[k].patterns = 1

\* C16: for every input shorter than 3 characters, before or after its
\* surrounding whitespace is trimmed, detectAddress returns isAddress = false,
\* confidence 0 and empty components, and tries no pattern and no fallback.
C16_ShortInputRejectedAtOnce ==
    \A k \in 1..Len(calls) :
        (Len(calls[k].input) < 3 \/ Len(trim(calls[k].input)) < 3) =>
            /\ ~calls[k].result.isAddress
            /\ calls[k].result.confidence = 0
            /\ calls[k].result.components = NoComponents
            /\ calls[k].patterns = 0
            /\ ~calls[k].fallback

\* detectAddress was called on a text of two characters and on a text of
\* five characters of which two are left after trimming
C16_ShortAndPaddedInputs ==
    /\ \E k \in 1..Len(calls) : calls[k].input = <<"1", "2">>
    /\ \E k \in 1..Len(calls) :
          Len(calls[k].input) >= 3 /\ trim(calls[k].input) = <<"1", "2">>

ContextualTypes == {"maintenance", "tenant", "scheduling", "analysis"}

ActionField(type) == IF type = "analysis" THEN "analysisType" ELSE "action"

\* C18: every command of type maintenance, tenant, scheduling or analysis
\* that processInput made by a contextual rule is executed with
\* success = true and a descriptor that carries the name of the action; a
\* result with success = false is returned only for a command of type
\* unknown or when a handler threw.
C18_DomainActionsSucceed ==
    (executed # <<>> /\ executed[1].outcome.status = "fulfilled") =>
        LET x == executed[1]
            result == x.outcome.value[1]
        IN  /\ (/\ processed # <<>>
                /\ x.command.type \in ContextualTypes
                /\ x.command = detectContextualCommand(trim(processed[1].input),
                                                       processed[1].activeTab)) =>
                   /\ result.success
                   /\ result.data # <<>>
                   /\ ActionField(x.command.type) \in DOMAIN result.data[1]
                   /\ result.data[1][ActionField(x.command.type)]
                         = Field(x.command, ActionField(x.command.type))
                   /\ Field(x.command, ActionField(x.command.type)) # <<>>
            /\ ~result.success =>
                   x.command.type = "unknown" \/ Dispatch(x.command).thrown

(***************************************************************************)
(* Properties of the source queries (ScraperSpec)                          *)
(***************************************************************************)
\* the call of source query s succeeded but yielded no data: the last of its
\* requests was answered with an ok response that holds no record, and none
\* of its requests was answered with one that holds a record
EmptyResult(s) == s \in noData

\* C19: when the call of a source succeeds but yields no data for the
\* address, its category is omitted from the merged result, as for a source
\* without credential or one that failed upstream: no zero-filled record,
\* default number or empty list stands in its place.
C19_EmptyResultOmitted ==
    (settled # <<>> /\ settled[1].status = "fulfilled") =>
        \A s \in SourceSet :
            EmptyResult(s) => settled[1].value[1][s] = <<>>

\* the credential the request named at sends, if it sends one
RequiredKey ==
    ("realtymole" :> {"REALTYMOLE_API_KEY"}) @@ ("attom" :> {"ATTOM_API_KEY"})
        @@ ("rentspree" :> {"RENTSPREE_API_KEY"})
        @@ ("realtor" :> {"REALTOR_API_KEY"})
        @@ ("walkscore" :> {"WALKSCORE_API_KEY"})
        @@ ("buildingpermits" :> {"BUILDING_PERMITS_API_KEY"})
        @@ ("census" :> {}) @@ ("chicago" :> {}) @@ ("los angeles" :> {})
        @@ ("new york" :> {})

\* C20: for every source, a request is issued only with the credential it
\* requires: no query is ever waiting for the answer to a request whose API
\* key is missing from the environment, also when only one of the two tax
\* keys or of the two market data keys is configured.
C20_NoRequestWithoutKey ==
    \A s \in SourceSet :
        promises[s].status = "pending" =>
            RequiredKey[promises[s].at] \subseteq environment

(***************************************************************************)
(* Properties of the tax fallback and of the merge (ScraperSpec)           *)
(***************************************************************************)
\* C21: in the tax category Attom is asked only after the request to
\* RealtyMole was answered with a failure, never while that request is
\* pending and never after it succeeded; there is at most one fallback
\* attempt, and when it fails too the tax query fails, which changes no other
\* query's promise and leaves every other category of the merged result as
\* its own query settled it.
C21_TaxFallbackSequential ==
    /\ [](LET a == attempts["taxAssessment"]
              p == promises["taxAssessment"]
          IN  /\ Len(a) <= 2
              /\ Len(a) >= 1 => a[1].at = "realtymole"
              /\ Len(a) = 2 => a[2].at = "attom" /\ ~a[1].ok
              /\ (p.status = "pending" /\ p.at = "realtymole") => a = <<>>
              /\ (p.status = "pending" /\ p.at = "attom") =>
                    Len(a) = 1 /\ ~a[1].ok
              /\ (Len(a) >= 1 /\ a[1].ok) => Len(a) = 1 /\ p.status = "fulfilled"
              /\ (Len(a) = 2 /\ ~a[2].ok) => p.status = "rejected"
              /\ (settled # <<>> /\ p.status = "rejected") =>
                    /\ settled[1].status = "fulfilled"
                    /\ settled[1].value[1].taxAssessment = <<>>
                    /\ \A s \in SourceSet :
                          promises[s].status = "fulfilled" =>
                              settled[1].value[1][s] = promises[s].value)
    /\ [][promises'["taxAssessment"] # promises["taxAssessment"] =>
             \A s \in SourceSet \ {"taxAssessment"} :
                 call.pc = "awaiting" => promises'[s] = promises[s]]_vars

\* RealtyMole failed, then Attom failed: the tax query is rejected after two
\* attempts, and the call returned with the walk score in its result
C21_BothTaxSourcesFailed ==
    /\ Len(attempts["taxAssessment"]) = 2
    /\ ~attempts["taxAssessment"][2].ok
    /\ promises["taxAssessment"].status = "rejected"
    /\ settled # <<>>
    /\ settled[1].value[1].taxAssessment = <<>>
    /\ promises["walkScore"].status = "fulfilled"
    /\ settled[1].value[1].walkScore = promises["walkScore"].value

\* the categories the merge defaults to the empty list, and what a category
\* holds when its query did not fulfil
ListCategories == {"permits", "violations", "sales", "schools"}

DefaultOf(s) == IF s \in ListCategories THEN <<<<>>>> ELSE <<>>

\* C22: the merged result is determined by the outcomes of the source
\* queries alone, in whatever order they completed: each category holds the
\* value its own query fulfilled with (its default if the query failed),
\* never the value of another query, and the address is that of the call.
C22_MergeByOwnSource ==
    settled # <<>> =>
        /\ settled[1].status = "fulfilled"
        /\ settled[1].value[1].address = call.address
        /\ \A s \in SourceSet :
              settled[1].value[1][s] =
                  IF promises[s].status = "fulfilled"
                  THEN promises[s].value
                  ELSE DefaultOf(s)

\* the call returned after the walk score and the demographics queries had
\* fulfilled ahead of the tax query, which stands first in the array
C22_CompletedOutOfArrayOrder ==
    /\ settled # <<>>
    /\ overtaken
    /\ attempts["taxAssessment"] # <<>>
    /\ promises["taxAssessment"].status = "fulfilled"
    /\ promises["demographics"].status = "fulfilled"
    /\ promises["walkScore"].status = "fulfilled"
    /\ settled[1].value[1].taxAssessment = promises["taxAssessment"].value
    /\ settled[1].value[1].walkScore = promises["walkScore"].value

\* C23: if every source query that was called settles at last, every call
\* of scrapePropertyData returns at last, fulfilled with its merged result;
\* and the coordinator abandons no query: a pending query stays pending
\* until it fulfils or rejects, and the call returns only when none is
\* pending.
C23_EveryCallReturns ==
    /\ (call.pc = "awaiting") ~> (call.pc = "returned")
    /\ [](call.pc = "returned" =>
             /\ settled # <<>>
             /\ settled[1].status = "fulfilled"
             /\ \A s \in SourceSet : IsSettled(promises[s]))
    /\ [][\A s \in SourceSet :
             promises[s].status = "pending" =>
                 /\ promises'[s].status \in {"pending", "fulfilled", "rejected"}
                 /\ settled' = settled]_vars

\* the call returned although the tax query needed two requests and was
\* overtaken by a query behind it
C23_ReturnedAfterSlowQuery ==
    /\ call.pc = "returned"
    /\ settled # <<>>
    /\ Len(attempts["taxAssessment"]) = 2
    /\ overtaken

(***************************************************************************)
(* Properties of the creation phrases (CommandSpec)                        *)
(***************************************************************************)
CreationPrefixes == {<<"c", "r", "e", "a", "t", "e">>, <<"a", "d", "d">>, <<"n", "e", "w">>}

\* the vocabulary of extractEntityType, in its order, with the words that
\* count as a mention of each entity
EntityVocabulary ==
    <<[entity |-> "property", words |-> {<<"p", "r", "o", "p", "e", "r", "t", "y">>}],
      [entity |-> "tenant", words |-> {<<"t", "e", "n", "a", "n", "t">>}],
      [entity |-> "work_order", words |-> {<<"w", "o", "r", "k", " ", "o", "r", "d", "e", "r">>, <<"m", "a", "i", "n", "t", "e", "n", "a", "n", "c", "e">>}],
      [entity |-> "expense", words |-> {<<"e", "x", "p", "e", "n", "s", "e">>}],
      [entity |-> "document", words |-> {<<"d", "o", "c", "u", "m", "e", "n", "t">>}]>>

Mentions(lower, k) == \E w \in EntityVocabulary[k].words : includes(lower, w)

FirstMentioned(lower) ==
    IF \A k \in 1..Len(EntityVocabulary) : ~Mentions(lower, k) THEN "unknown"
    ELSE LET first == CHOOSE k \in 1..Len(EntityVocabulary) :
                          /\ Mentions(lower, k)
                          /\ \A j \in 1..(k - 1) : ~Mentions(lower, j)
         IN  EntityVocabulary[first].entity

\* the text starts with a creation prefix and neither the address stage nor
\* the contextual stage takes it
CreationCase(text, tab) ==
    /\ \E prefix \in CreationPrefixes : startsWith(toLowerCase(text), prefix)
    /\ ~AddressAccepted(detectAddress(text))
    /\ ~ContextualAccepted(detectContextualCommand(text, tab))

\* the navigation or the help rule of the general stage takes the text
NavigationOrHelp(text) ==
    LET lower == toLowerCase(text)
    IN  \/ /\ \E phrase \in NavigationPhrases : includes(lower, phrase)
           /\ \E target \in DOMAIN DestinationWord :
                 includes(lower, DestinationWord[target])
        \/ \E word \in {<<"h", "e", "l", "p">>, <<"h", "o", "w">>, <<"w", "h", "a", "t">>} : includes(lower, word)

IsCreateCommand(command, text) ==
    /\ command.type = "create"
    /\ command.confidence = 70
    /\ command.data = <<[entity |-> FirstMentioned(toLowerCase(text))]>>

\* C24 as stated: every input that starts with 'create', 'add' or 'new' and
\* is not taken by the address or contextual stage is classified as create
\* with confidence 0.7 and data.entity the first entity of the vocabulary
\* that the text mentions, 'unknown' if it mentions none.
C24_CreationPrefixGivesCreate ==
    processed # <<>> =>
        LET text == trim(processed[1].input)
        IN  CreationCase(text, processed[1].activeTab) =>
                IsCreateCommand(processed[1].command, text)

\* C24 amended: the same, for the inputs that the navigation and help rules,
\* which the general stage tries before the creation rule, do not take; an
\* input they take is classified as navigation or help although it starts
\* with a creation prefix.
C24_CreateAfterNavigationAndHelp ==
    processed # <<>> =>
        LET text == trim(processed[1].input)
        IN  CreationCase(text, processed[1].activeTab) =>
                IF NavigationOrHelp(text)
                THEN processed[1].command.type \in {"navigation", "help"}
                ELSE IsCreateCommand(processed[1].command, text)

\* 'new Schedule maintenance' typed on the overview tab was classified as
\* create with the entity work_order
C24_CreateWorkOrder ==
    /\ processed # <<>>
    /\ startsWith(toLowerCase(trim(processed[1].input)), <<"n", "e", "w">>)
    /\ processed[1].command.type = "create"
    /\ processed[1].command.confidence = 70
    /\ processed[1].command.data = <<[entity |-> "work_order"]>>

\* the fields a text of AddressArguments carries, as detectAddress should
\* capture them: <<>> for a field the text does not have
CarriedCity(parts) == IF parts.place = <<>> THEN <<>> ELSE <<<<"B", "o", "s", "t", "o", "n">>>>

CarriedState(parts) == IF parts.place = <<>> THEN <<>> ELSE <<<<"M", "A">>>>

CarriedZip(parts) == IF parts.zip = <<>> THEN <<>> ELSE <<Tail(parts.zip)>>

\* '{number} {street}', then ', {city}, {state}' and ' {zip}' for the fields
\* the text carries
CarriedFormatted(parts) ==
    parts.number \o <<" ">> \o StreetText(parts)
        \o (IF parts.place = <<>> THEN <<>> ELSE <<",", " ", "B", "o", "s", "t", "o", "n", ",", " ", "M", "A">>)
        \o parts.zip

\* C25: for every recognised input the formatted text of detectAddress is
\* '{number} {street}', followed by ', {city}, {state}' when the input carries
\* a city and state and by ' {zip}' when it carries a ZIP, and components
\* holds the same captured fields under their own names; fields the input
\* does not have are omitted, and a unit number is never stored as city.
C25_FormattedCarriesInputFields ==
    \A k \in 1..Len(calls) :
        LET c == calls[k]
        IN  (c.result.isAddress /\ IsStreetAddress(c.parts)) =>
                /\ c.result.formatted = CarriedFormatted(c.parts)
                /\ c.result.components =
                      [number |-> <<c.parts.number>>,
                       street |-> <<StreetText(c.parts)>>,
                       city |-> CarriedCity(c.parts),
                       state |-> CarriedState(c.parts),
                       zip |-> CarriedZip(c.parts)]

\* the text has a digit as its first character
StartsWithDigit(text) == text # <<>> /\ text[1] \in Digits

\* C26: when no pattern yields an accepted match, detectAddress returns
\* isAddress = true with confidence 0.7 if and only if the trimmed input
\* starts with a digit sequence and contains a street-suffix word, and
\* otherwise isAddress = false with confidence 0; so no input without a
\* leading digit is ever recognised as an address.
C26_FallbackNeedsDigitAndSuffix ==
    \A k \in 1..Len(calls) :
        LET c == calls[k]
            trimmed == trim(c.input)
        IN  /\ c.fallback =>
                  IF StartsWithDigit(trimmed) /\ hasStreetSuffix(trimmed)
                  THEN c.result.isAddress /\ c.result.confidence = 70
                  ELSE ~c.result.isAddress /\ c.result.confidence = 0
            /\ ~StartsWithDigit(trimmed) => ~c.result.isAddress

\* the fallback accepted a text that no pattern matched: it starts with
\* digits and has a street-suffix word
C26_FallbackAccepted ==
    \E k \in 1..Len(calls) :
        /\ calls[k].fallback
        /\ calls[k].result.isAddress
        /\ calls[k].result.confidence = 70
        /\ StartsWithDigit(trim(calls[k].input))
        /\ hasStreetSuffix(trim(calls[k].input))

\* C27: the confidence that detectAddress returns lies in [0, 0.99] for
\* every input, whichever pattern matched and whichever of the +0.05 and
\* -0.10 adjustments applied.
C27_ConfidenceInRange ==
    \A k \in 1..Len(calls) :
        /\ calls[k].result.confidence >= 0
        /\ calls[k].result.confidence <= 99

\* the last pattern matched a text whose street text is a common suffix of
\* fewer than 4 characters, so both adjustments applied: 0.7 + 0.05 - 0.1
C27_BoostedAndReduced ==
    \E k \in 1..Len(calls) :
        /\ calls[k].result.isAddress
        /\ ~calls[k].fallback
        /\ calls[k].patterns = Len(ADDRESS_PATTERNS)
        /\ Len(calls[k].result.components.street[1]) < 4
        /\ calls[k].result.confidence = 65

(***************************************************************************)
(* Properties of the queries that are not implemented (ScraperSpec)        *)
(***************************************************************************)
\* the source queries whose body is a single throw
NotImplemented == {"violations", "sales", "schools", "crime", "floodZone", "zoning"}

\* C28: for every address and every configuration of credentials and
\* network, the merged result of scrapePropertyData has crime, floodZone and
\* zoning absent and violations, sales and schools equal to the empty list,
\* because these six source queries fail unconditionally.
C28_UnimplementedCategories ==
    /\ \A s \in NotImplemented :
          call.pc # "idle" => promises[s].status = "rejected"
    /\ (settled # <<>> /\ settled[1].status = "fulfilled") =>
          LET merged == settled[1].value[1]
          IN  /\ merged.crime = <<>>
              /\ merged.floodZone = <<>>
              /\ merged.zoning = <<>>
              /\ merged.violations = <<<<>>>>
              /\ merged.sales = <<<<>>>>
              /\ merged.schools = <<<<>>>>

\* scrapePropertyData returned with every credential configured and tax,
\* market, demographics and walk score data in the merged result, and the
\* six categories are still absent or empty
C28_ReturnedWithAllCredentials ==
    /\ environment = ApiKeys
    /\ call.pc = "returned"
    /\ settled # <<>>
    /\ settled[1].status = "fulfilled"
    /\ settled[1].value[1].taxAssessment # <<>>
    /\ settled[1].value[1].marketData # <<>>
    /\ settled[1].value[1].demographics # <<>>
    /\ settled[1].value[1].walkScore # <<>>
    /\ settled[1].value[1].violations = <<<<>>>>
    /\ settled[1].value[1].crime = <<>>

(***************************************************************************)
(* Properties of the loads of the preview (PreviewSpec)                    *)
(***************************************************************************)
\* the loads that the mounted preview started
LoadsOfPreview == {k \in 1..Len(loads) : loads[k].instance = instance}

\* C29: if the address of the preview changes while the aggregation for the
\* previous address is in flight, then once all loads in flight have settled
\* publicData is the result for the current address, a slower load for an
\* earlier address never overwriting the result of a later one, and loading
\* is false only when no load is in flight.
C29_LatestAddressWins ==
    showDataPreview =>
        /\ (/\ LoadsOfPreview # {}
            /\ \A k \in LoadsOfPreview : loads[k].status = "returned") =>
               /\ publicData # <<>>
               /\ publicData[1].address = previewAddress
        /\ ~loading => \A k \in LoadsOfPreview : loads[k].status = "returned"

(***************************************************************************)
(* Properties of handleSubmit (PreviewSpec)                                *)
(***************************************************************************)
\* C30: handleSubmit processes at most one command at a time: a submit that
\* arrives while isProcessing is true, or with an empty or whitespace input,
\* is ignored without calling processInput, and after every accepted submit,
\* whether processing succeeded or threw, isProcessing is false again and the
\* input is cleared.
C30_OneCommandAtATime ==
    /\ [](/\ Len(submissions) <= 1
          /\ isProcessing <=> submissions # <<>>)
    /\ [][/\ (isProcessing \/ trim(input) = <<>>) =>
                /\ processed' = processed
                /\ Len(submissions') <= Len(submissions)
          /\ Len(submissions') > Len(submissions) =>
                /\ ~isProcessing /\ trim(input) # <<>>
                /\ processed' # <<>>
                /\ processed'[1].input = input
                /\ submissions' = <<processed'[1].command>>
          /\ Len(submissions') < Len(submissions) =>
                ~isProcessing' /\ input' = <<>>]_vars

\* a submit was accepted and its handler has finished: processInput was
\* called on the text, the flag is false again, the input is cleared
C30_SubmitFinished ==
    /\ processed # <<>>
    /\ processed[1].command.type = "create"
    /\ submissions = <<>>
    /\ ~isProcessing
    /\ input = <<>>

(***************************************************************************)
(* The components side by side                                             *)
(***************************************************************************)
Init == ScraperInit

Next == CommandNext \/ ScraperNext \/ PreviewNext \/ AddressNext

Spec == Init /\ [][Next]_vars

====
